---- MODULE Spec2Model ----
(***************************************************************************)
(* Model of toast/ops/conviqt.py: the SimConviqt and SimWeightedConviqt    *)
(* operators.  A group of MPI processes, each owning a list of             *)
(* observations, runs _exec: the detector gather/broadcast, then for each  *)
(* agreed detector the extract, convolve, calibrate, accumulate sequence.  *)
(*                                                                         *)
(* Angles are integers in units of pi/4, so that cos(2*psi) and sin(2*psi) *)
(* are in {-1,0,1}.  Detector names are sequences of character codes, so   *)
(* that Python's sorted() on strings is a lexicographic sort that can be   *)
(* computed.  Signal samples are integers.                                 *)
(***************************************************************************)
EXTENDS Integers, Sequences, FiniteSets, TLC

\* ---------------------------------------------------------------- bounds
NProc == 2
MaxObs == 3
MaxSeed == 1
MaxBuf == 4
MaxRuns == 2
MaxMask == 3
MaxMc == 2

Procs == 1..NProc
\* comm.rank == 0 is the first process of the group
Root == 1

NoErr == "ok"

\* Python's None: an optional value is a record, absent when has is FALSE
Some(x) == [has |-> TRUE, v |-> x]
None == [has |-> FALSE, v |-> <<>>]
\* flags = None in get_pointing (the flag words themselves are >= 0)
NoFlag == -1

\* ------------------------------------------------------- detector names
NameA == <<1>>
NameAB == <<1, 2>>
NameB == <<2>>
DetNames == {NameA, NameAB, NameB}

\* str.__lt__: lexicographic comparison of the character codes
RECURSIVE LexLess(_, _)
LexLess(a, b) ==
  IF a = <<>> THEN b # <<>>
  ELSE IF b = <<>> THEN FALSE
  ELSE IF Head(a) < Head(b) THEN TRUE
  ELSE IF Head(a) > Head(b) THEN FALSE
  ELSE LexLess(Tail(a), Tail(b))

\* sorted(my_dets): the ascending list of a set of names
RECURSIVE Sorted(_)
Sorted(S) ==
  IF S = {} THEN <<>>
  ELSE LET m == CHOOSE x \in S : \A y \in S \ {x} : LexLess(x, y)
       IN <<m>> \o Sorted(S \ {m})

\* ------------------------------------------------------------ arithmetic
RECURSIVE BitAnd(_, _)
BitAnd(a, b) ==
  IF a = 0 \/ b = 0 THEN 0
  ELSE (a % 2) * (b % 2) + 2 * BitAnd(a \div 2, b \div 2)

RECURSIVE BitOr(_, _)
BitOr(a, b) ==
  IF a = 0 THEN b
  ELSE IF b = 0 THEN a
  ELSE (IF a % 2 = 1 \/ b % 2 = 1 THEN 1 ELSE 0) + 2 * BitOr(a \div 2, b \div 2)

\* np.cos / np.sin of 2*psi_pol, psi_pol in units of pi/4
Cos2(x) == CASE x % 4 = 0 -> 1 [] x % 4 = 2 -> -1 [] OTHER -> 0
Sin2(x) == CASE x % 4 = 1 -> 1 [] x % 4 = 3 -> -1 [] OTHER -> 0

Min(a, b) == IF a < b THEN a ELSE b

RECURSIVE SumSeq(_)
SumSeq(s) == IF s = <<>> THEN 0 ELSE Head(s) + SumSeq(Tail(s))

RECURSIVE Flatten(_)
Flatten(ss) == IF ss = <<>> THEN <<>> ELSE Head(ss) \o Flatten(Tail(ss))

\* ---------------------------------------------------------- quaternions
nullquat == <<0, 0, 0, 1>>
QuatX == <<1, 0, 0, 1>>
QuatY == <<0, 1, 0, 1>>
QuatPool == <<nullquat, QuatX, QuatY>>

\* qa.to_angles: ZYZ Euler angles (theta, phi, psi) of an attitude quaternion
ToAngles(q) ==
  CASE q = nullquat -> [theta |-> 0, phi |-> 0, psi |-> 0]
    [] q = QuatX -> [theta |-> 2, phi |-> -2, psi |-> 2]
    [] q = QuatY -> [theta |-> 2, phi |-> 0, psi |-> 4]

\* astropy Quantity.to_value(u.radian): a quantity is a value with its unit
ToValueRadian(q) == IF q.unit = "deg" THEN q.v \div 45 ELSE q.v

\* ------------------------------------------------------------------ state
VARIABLES
  cfg,        \* the operator's traits and the call's arguments (fixed in a run)
  data,       \* data[p]: the observations of process p (data.obs) as stored
  detdata,    \* detdata[p][key][o]: obs.detdata[key] of observation o, or None
  pc,         \* pc[p]: where process p is in _exec
  idx,        \* idx[p]: position of the detector loop in all_dets[p]
  comp,       \* comp[p]: beam component of the current engine call
  my_dets,    \* my_dets[p]: local variable of _get_all_detectors
  gathered,   \* gathered[p]: what p handed to comm.gather (None before)
  bcast,      \* the value the root handed to comm.bcast (None before)
  all_dets,   \* all_dets[p]: what _get_all_detectors returned on p
  pnt,        \* pnt[p]: theta, phi, psi of get_pointing, one row per sample
  psi_pol,    \* psi_pol[p]: the psi_pol array of get_pointing
  prov,       \* prov[p]: the sample <<o, v, i>> each row of pnt[p] came from
  conv,       \* conv[p]: convolved_data (None when there is no buffer)
  calls,      \* calls[p]: the engine calls p has issued, <<det, component>>
  err,        \* err[p]: the exception that left _exec on p at pc[p], or NoErr
  runs,       \* the number of the current invocation of the operator
  held,       \* held[p]: the sky, beams, descriptor and pointing buffer p holds
  loads,      \* loads[p]: the get_sky and get_beam calls of p, in order
  last_set    \* the last assignment to a validated trait, and its outcome

vars == <<cfg, data, detdata, pc, idx, comp, my_dets, gathered, bcast,
          all_dets, pnt, psi_pol, prov, conv, calls, err, runs, held, loads,
          last_set>>

\* the detdata keys of the model: the trait's default and another one
Keys == {"signal", "conviqt"}

\* a key that is the trait's default whatever the trait holds
DetDataKeyDefault(c) == "signal"

\* the key the operator reads and writes storage under: self.det_data
\* (lines 292, 515, 518, 536)
DetDataKey(c) == c.det_data

\* signal[p][o]: obs.detdata[self.det_data] of observation o of process p
signal == [p \in Procs |-> detdata[p][cfg.det_data]]

\* ------------------------------------------------- focal plane accessors
\* SimConviqt._get_psi_pol
GetPsiPol(focalplane, det) ==
  IF det \notin DOMAIN focalplane THEN [err |-> "RuntimeError", val |-> 0]
  ELSE LET props == focalplane[det] IN
    IF "psi_pol" \in props.cols
    THEN IF "pol_angle" \in props.cols
         THEN [err |-> NoErr, val |-> ToValueRadian(props.pol_angle)]
         ELSE [err |-> "KeyError", val |-> 0]
    ELSE IF "pol_angle" \in props.cols
    THEN [err |-> NoErr, val |-> ToValueRadian(props.pol_angle)]
    ELSE [err |-> "RuntimeError", val |-> 0]

\* SimConviqt._get_psi_uv: the return statement names psipol, which is
\* bound nowhere, so every call that gets that far raises NameError
GetPsiUv(focalplane, det) ==
  IF det \notin DOMAIN focalplane THEN [err |-> "RuntimeError", val |-> 0]
  ELSE LET props == focalplane[det] IN
    IF "psi_uv_deg" \in props.cols
    THEN IF "psi_uv" \in props.cols
         THEN [err |-> "NameError", val |-> 0]
         ELSE [err |-> "KeyError", val |-> 0]
    ELSE [err |-> "RuntimeError", val |-> 0]

\* a leakage read from the entry whether or not it has the column
GetEpsilonStored(focalplane, det) ==
  [err |-> NoErr, val |-> focalplane[det].pol_leakage]

\* SimConviqt._get_epsilon
GetEpsilon(focalplane, det) ==
  IF det \notin DOMAIN focalplane THEN [err |-> "RuntimeError", val |-> 0]
  ELSE LET props == focalplane[det] IN
    IF "pol_leakage" \in props.cols
    THEN [err |-> NoErr, val |-> props.pol_leakage]
    ELSE [err |-> NoErr, val |-> 0]

\* ------------------------------------------------------------ get_pointing
\* a combination that keeps only what both streams flag
SampleFlagAnd(c, ob, det, v, i) ==
  IF ~c.apply_flags THEN NoFlag
  ELSE LET f1 == IF c.shared_flags
                 THEN BitAnd(ob.sflags[v][i], c.shared_flag_mask)
                 ELSE NoFlag
       IN IF c.det_flags
          THEN LET detflags == BitAnd(ob.dflags[det][v][i], c.det_flag_mask)
               IN IF f1 # NoFlag THEN BitAnd(f1, detflags) ELSE detflags
          ELSE f1

\* lines 400-411: the combined flag of one sample, NoFlag when no flag
\* stream is consulted
SampleFlag(c, ob, det, v, i) ==
  IF ~c.apply_flags THEN NoFlag
  ELSE LET f1 == IF c.shared_flags
                 THEN BitAnd(ob.sflags[v][i], c.shared_flag_mask)
                 ELSE NoFlag
       IN IF c.det_flags
          THEN LET detflags == BitAnd(ob.dflags[det][v][i], c.det_flag_mask)
               IN IF f1 # NoFlag THEN BitOr(f1, detflags) ELSE detflags
          ELSE f1

\* lines 414-420: the quaternion handed to to_angles for one sample
SampleQuat(c, ob, det, v, i) ==
  LET flags == SampleFlag(c, ob, det, v, i) IN
  IF flags # NoFlag /\ flags # 0 THEN nullquat ELSE ob.quats[det][v][i]

\* lines 426-429: the effective polarization angle
EffectivePsiPol(c, focalplane, det) ==
  LET a == GetPsiPol(focalplane, det) IN
  IF a.err # NoErr THEN a
  ELSE IF c.dxx
       THEN LET b == GetPsiUv(focalplane, det) IN
            IF b.err # NoErr THEN b
            ELSE [err |-> NoErr, val |-> a.val + b.val]
       ELSE a

\* a view loop that leaves the flagged samples out of the stream
PointingOfViewDropFlagged(c, ob, det, v) ==
  LET n == ob.views[v]
      e == EffectivePsiPol(c, ob.fp, det)
      keep == SelectSeq([i \in 1..n |-> i],
                        LAMBDA i : SampleFlag(c, ob, det, v, i) \in {NoFlag, 0})
      ang(i) == ToAngles(ob.quats[det][v][i])
  IN [err |-> e.err,
      rows |-> [k \in 1..Len(keep) |->
                 [theta |-> ang(keep[k]).theta, phi |-> ang(keep[k]).phi,
                  psi |-> ang(keep[k]).psi - e.val]],
      psi_pol |-> [k \in 1..Len(keep) |->
                    IF c.hwp_angle THEN e.val + 2 * ob.hwp[v][keep[k]] ELSE e.val],
      prov |-> [k \in 1..Len(keep) |-> <<v, keep[k]>>]]

\* a view loop that takes the HWP term out of psi as well
PointingOfViewHwpInPsi(c, ob, det, v) ==
  LET n == ob.views[v]
      e == EffectivePsiPol(c, ob.fp, det)
      ang(i) == ToAngles(SampleQuat(c, ob, det, v, i))
      pp(i) == IF c.hwp_angle THEN e.val + 2 * ob.hwp[v][i] ELSE e.val
  IN [err |-> e.err,
      rows |-> [i \in 1..n |->
                 [theta |-> ang(i).theta, phi |-> ang(i).phi,
                  psi |-> ang(i).psi - pp(i)]],
      psi_pol |-> [i \in 1..n |-> pp(i)],
      prov |-> [i \in 1..n |-> <<v, i>>]]

\* lines 398-438: the body of the view loop for one view of one observation
PointingOfView(c, ob, det, v) ==
  LET n == ob.views[v]
      e == EffectivePsiPol(c, ob.fp, det)
      ang(i) == ToAngles(SampleQuat(c, ob, det, v, i))
  IN [err |-> e.err,
      rows |-> [i \in 1..n |->
                 [theta |-> ang(i).theta, phi |-> ang(i).phi,
                  psi |-> ang(i).psi - e.val]],
      psi_pol |-> [i \in 1..n |->
                    IF c.hwp_angle THEN e.val + 2 * ob.hwp[v][i] ELSE e.val],
      prov |-> [i \in 1..n |-> <<v, i>>]]

\* lines 392-438 for one observation: views in index order, stopping at the
\* first view that raises
RECURSIVE PointingOfObs(_, _, _, _, _)
PointingOfObs(c, ob, o, det, v) ==
  IF v > Len(ob.views)
  THEN [err |-> NoErr, rows |-> <<>>, psi_pol |-> <<>>, prov |-> <<>>]
  ELSE LET h == PointingOfView(c, ob, det, v) IN
       IF h.err # NoErr
       THEN [err |-> h.err, rows |-> <<>>, psi_pol |-> <<>>, prov |-> <<>>]
       ELSE LET t == PointingOfObs(c, ob, o, det, v + 1) IN
            IF t.err # NoErr THEN t
            ELSE [err |-> NoErr,
                  rows |-> h.rows \o t.rows,
                  psi_pol |-> h.psi_pol \o t.psi_pol,
                  prov |-> [k \in 1..Len(h.prov) |->
                              <<o, h.prov[k][1], h.prov[k][2]>>] \o t.prov]

\* lines 401-411: with apply_flags and a flag stream named, flags is bound
\* to an array; otherwise it stays None
FlagsBound(c) == c.apply_flags /\ (c.shared_flags \/ c.det_flags)

\* lines 403 and 406: np.array(...) copies the stored stream, so flags and
\* detflags never share memory with storage
FlagsAlias(c) == FALSE

\* a quats that stays the view of the stored stream it was at line 414
QuatsAliasKept(c) == TRUE

\* line 414 binds quats to a view of the stored stream; line 419 rebinds
\* it to a copy when flags is not None
QuatsAlias(c) == ~FlagsBound(c)

\* the in-place statements of one pass of the view loop (lines 404, 407,
\* 409, 420) write the array their name is bound to: the observation as
\* it is stored after the pass over view v
StoredAfterView(c, ob, det, v) ==
  LET n == ob.views[v]
      sf == IF c.apply_flags /\ c.shared_flags /\ FlagsAlias(c)
            THEN [i \in 1..n |-> SampleFlag(c, ob, det, v, i)]
            ELSE ob.sflags[v]
      df == IF c.apply_flags /\ c.det_flags /\ FlagsAlias(c)
            THEN [i \in 1..n |-> BitAnd(ob.dflags[det][v][i], c.det_flag_mask)]
            ELSE ob.dflags[det][v]
      qs == IF FlagsBound(c) /\ QuatsAlias(c)
            THEN [i \in 1..n |-> SampleQuat(c, ob, det, v, i)]
            ELSE ob.quats[det][v]
  IN [ob EXCEPT !.sflags[v] = sf, !.dflags[det][v] = df, !.quats[det][v] = qs]

\* the passes over the views of one observation from view v on, up to
\* the pass that raises: the angles are read (line 426) after the
\* in-place statements of the pass
RECURSIVE StoredAfterObs(_, _, _, _)
StoredAfterObs(c, ob, det, v) ==
  IF v > Len(ob.views) THEN ob
  ELSE LET after == StoredAfterView(c, ob, det, v) IN
       IF EffectivePsiPol(c, ob.fp, det).err # NoErr THEN after
       ELSE StoredAfterObs(c, after, det, v + 1)

\* get_pointing raises in the observation: it holds the detector, has a
\* view, and the angles of the detector cannot be read (lines 426-429)
PointingFails(c, ob, det) ==
  /\ det \in ob.dets /\ Len(ob.views) > 0
  /\ EffectivePsiPol(c, ob.fp, det).err # NoErr

\* data.obs as get_pointing leaves it: the observations it went through,
\* up to the first that raises
StoredAfterPointing(c, obs, det) ==
  [o \in 1..Len(obs) |->
     IF det \in obs[o].dets
          /\ \A b \in 1..(o - 1) : ~PointingFails(c, obs[b], det)
     THEN StoredAfterObs(c, obs[o], det, 1)
     ELSE obs[o]]

\* SimConviqt.get_pointing: observations in data.obs order, skipping those
\* that do not hold the detector
RECURSIVE GetPointingFrom(_, _, _, _)
GetPointingFrom(c, obs, det, o) ==
  IF o > Len(obs)
  THEN [err |-> NoErr, rows |-> <<>>, psi_pol |-> <<>>, prov |-> <<>>]
  ELSE IF det \notin obs[o].dets
  THEN GetPointingFrom(c, obs, det, o + 1)
  ELSE LET h == PointingOfObs(c, obs[o], o, det, 1) IN
       IF h.err # NoErr THEN h
       ELSE LET t == GetPointingFrom(c, obs, det, o + 1) IN
            IF t.err # NoErr THEN t
            ELSE [err |-> NoErr,
                  rows |-> h.rows \o t.rows,
                  psi_pol |-> h.psi_pol \o t.psi_pol,
                  prov |-> h.prov \o t.prov]

GetPointing(c, obs, det) == GetPointingFrom(c, obs, det, 1)

\* ------------------------------------------- get_detector, get_buffer, convolve
\* a descriptor that carries a leakage of 1
GetDetectorUnitLeakage(det) ==
  [role |-> "detector", name |-> det, epsilon |-> 1]

\* lines 374-379: conviqt.Detector(name=det, epsilon=0)
GetDetector(det) == [role |-> "detector", name |-> det, epsilon |-> 0]

\* The value libconviqt leaves in column 3 of a pointing row for a
\* descriptor of leakage 0: a function of the detector, the beam component
\* and the three angles only
EngineValue(det, cmp, r) ==
  LET ci == CASE cmp = "S" -> 0 [] cmp = "I" -> 0 [] cmp = "Q" -> 1 [] OTHER -> 2
  IN 1 + ((r.theta + 2 * r.phi + 3 * r.psi + Len(det) + ci) % 3)

\* The value for any descriptor: the leakage of the descriptor the engine
\* was constructed with changes what the engine returns
EngineValueOf(detector, cmp, r) ==
  EngineValue(detector.name, cmp, r) * (1 + detector.epsilon)

\* get_buffer (lines 454-459) then convolve (lines 466-489): an engine is
\* constructed with the descriptor, a Pointing of len(theta) rows goes
\* through it, and the result is column 3 of its rows when there is a row,
\* None otherwise
Convolve(detector, cmp, rows) ==
  IF Len(rows) > 0
  THEN Some([k \in 1..Len(rows) |-> EngineValueOf(detector, cmp, rows[k])])
  ELSE None

\* a recombination that cannot take None for a buffer without samples
WeightedAddStrict(acc, w, piece) ==
  IF ~piece.has \/ ~acc.has
  THEN [err |-> "TypeError", val |-> acc]
  ELSE [err |-> NoErr,
        val |-> Some([k \in 1..Len(acc.v) |-> acc.v[k] + w[k] * piece.v[k]])]

\* a recombination that adds the Q and U terms without their weights
WeightedAddUnweighted(acc, w, piece) ==
  IF ~piece.has THEN [err |-> NoErr, val |-> Some(<<>>)]
  ELSE [err |-> NoErr,
        val |-> Some([k \in 1..Len(acc.v) |-> acc.v[k] + piece.v[k]])]

\* numpy: convolved_data += w * piece (lines 631 and 638).  An empty weight
\* array times None is an empty array, and None += an empty array is that
\* array; a value times None is a TypeError
WeightedAdd(acc, w, piece) ==
  IF ~piece.has
  THEN IF Len(w) = 0
       THEN [err |-> NoErr, val |-> Some(<<>>)]
       ELSE [err |-> "TypeError", val |-> acc]
  ELSE IF ~acc.has
  THEN [err |-> "TypeError", val |-> acc]
  ELSE IF Len(w) # Len(piece.v) \/ Len(acc.v) # Len(piece.v)
  THEN [err |-> "ValueError", val |-> acc]
  ELSE [err |-> NoErr,
        val |-> Some([k \in 1..Len(acc.v) |-> acc.v[k] + w[k] * piece.v[k]])]

\* -------------------------------------------- traversal of the storage views
\* a traversal that visits the views of an observation last to first
RECURSIVE SlotsFromReversed(_, _, _)
SlotsFromReversed(obs, det, o) ==
  IF o > Len(obs) THEN <<>>
  ELSE IF det \notin obs[o].dets THEN SlotsFromReversed(obs, det, o + 1)
  ELSE [v \in 1..Len(obs[o].views) |-> <<o, Len(obs[o].views) + 1 - v>>]
       \o SlotsFromReversed(obs, det, o + 1)

\* lines 509-518 and 531-536: the views of the detector in the order
\* calibrate_signal and save visit them, as <<observation, view>>
RECURSIVE SlotsFrom(_, _, _)
SlotsFrom(obs, det, o) ==
  IF o > Len(obs) THEN <<>>
  ELSE IF det \notin obs[o].dets THEN SlotsFrom(obs, det, o + 1)
  ELSE [v \in 1..Len(obs[o].views) |-> <<o, v>>] \o SlotsFrom(obs, det, o + 1)

Slots(obs, det) == SlotsFrom(obs, det, 1)

\* the number of samples of the detector over all views of all local
\* observations that hold it
RECURSIVE TotalFrom(_, _, _)
TotalFrom(obs, det, o) ==
  IF o > Len(obs) THEN 0
  ELSE (IF det \in obs[o].dets THEN SumSeq(obs[o].views) ELSE 0)
       + TotalFrom(obs, det, o + 1)

TotalSamples(obs, det) == TotalFrom(obs, det, 1)

\* --------------------------------------------------------- calibrate_signal
\* a calibration that scales every slice by the leakage of the first
\* observation holding the detector
RECURSIVE CalibrateFromFirstEpsilon(_, _, _, _, _)
CalibrateFromFirstEpsilon(obs, det, buf, o, offset) ==
  IF o > Len(obs) \/ ~buf.has THEN [err |-> NoErr, val |-> buf]
  ELSE IF det \notin obs[o].dets
       THEN CalibrateFromFirstEpsilon(obs, det, buf, o + 1, offset)
  ELSE LET e == GetEpsilon(obs[o].fp, det) IN
       [err |-> e.err,
        val |-> Some([k \in 1..Len(buf.v) |->
                       (buf.v[k] * 2) \div (1 + e.val)])]

\* lines 509-521: observations holding the detector in data.obs order, each
\* view's slice of the buffer scaled in place by 2 / (1 + epsilon)
RECURSIVE CalibrateFrom(_, _, _, _, _)
CalibrateFrom(obs, det, buf, o, offset) ==
  IF o > Len(obs) THEN [err |-> NoErr, val |-> buf]
  ELSE IF det \notin obs[o].dets THEN CalibrateFrom(obs, det, buf, o + 1, offset)
  ELSE LET e == GetEpsilon(obs[o].fp, det)
           n == SumSeq(obs[o].views)
       IN IF e.err # NoErr THEN [err |-> e.err, val |-> buf]
          ELSE IF n > 0 /\ ~buf.has THEN [err |-> "TypeError", val |-> buf]
          ELSE IF n = 0 THEN CalibrateFrom(obs, det, buf, o + 1, offset)
          ELSE CalibrateFrom(
                 obs, det,
                 Some([k \in 1..Len(buf.v) |->
                        IF k > offset /\ k <= offset + n
                        THEN (buf.v[k] * 2) \div (1 + e.val)
                        ELSE buf.v[k]]),
                 o + 1, offset + n)

\* a calibration that scales whatever the beam and the calibrate trait say
CalibrateSignalAlways(c, obs, det, normalized, buf) ==
  CalibrateFrom(obs, det, buf, 1, 0)

\* SimConviqt.calibrate_signal
CalibrateSignal(c, obs, det, normalized, buf) ==
  IF ~c.calibrate \/ normalized THEN [err |-> NoErr, val |-> buf]
  ELSE CalibrateFrom(obs, det, buf, 1, 0)

\* --------------------------------------------------------------------- save
\* a store that replaces the view's samples by the slice
AddSliceOverwrite(view, buf, offset) ==
  LET n == Len(view)
      hi == Min(offset + n, Len(buf))
      m == IF hi > offset THEN hi - offset ELSE 0
  IN IF m = n
     THEN [err |-> NoErr, val |-> [i \in 1..n |-> buf[offset + i]]]
     ELSE IF m = 1
     THEN [err |-> NoErr, val |-> [i \in 1..n |-> buf[offset + 1]]]
     ELSE [err |-> "ValueError", val |-> view]

\* line 538, view[det] += convolved_data[offset : offset + nsample]: the
\* slice is clipped to the buffer; numpy adds it sample by sample when it
\* has nsample values, broadcasts it when it has one, and raises otherwise
AddSlice(view, buf, offset) ==
  LET n == Len(view)
      hi == Min(offset + n, Len(buf))
      m == IF hi > offset THEN hi - offset ELSE 0
  IN IF m = n
     THEN [err |-> NoErr, val |-> [i \in 1..n |-> view[i] + buf[offset + i]]]
     ELSE IF m = 1
     THEN [err |-> NoErr, val |-> [i \in 1..n |-> view[i] + buf[offset + 1]]]
     ELSE [err |-> "ValueError", val |-> view]

\* lines 530-539 from slot k on
RECURSIVE SaveFrom(_, _, _, _, _, _)
SaveFrom(sig, slots, det, buf, k, offset) ==
  IF k > Len(slots) THEN [err |-> NoErr, sig |-> sig, offset |-> offset]
  ELSE LET o == slots[k][1]
           v == slots[k][2]
       IN IF ~sig[o].has
          THEN [err |-> "KeyError", sig |-> sig, offset |-> offset]
          ELSE IF ~buf.has
          THEN [err |-> "TypeError", sig |-> sig, offset |-> offset]
          ELSE LET a == AddSlice(sig[o].v[det][v], buf.v, offset) IN
               IF a.err # NoErr
               THEN [err |-> a.err, sig |-> sig, offset |-> offset]
               ELSE SaveFrom([sig EXCEPT ![o].v[det][v] = a.val], slots, det, buf,
                             k + 1, offset + Len(sig[o].v[det][v]))

\* SimConviqt.save
Save(sig, obs, det, buf) == SaveFrom(sig, Slots(obs, det), det, buf, 1, 0)

\* ------------------------------------------------------------ input data
\* One focal-plane entry: the columns it exposes and their values.  psi_pol
\* is stored in radians, pol_angle in degrees; delta is the difference of
\* the two angles
MkProps(fpk, det) ==
  [cols |-> fpk.cols,
   psi_pol |-> [v |-> Len(det), unit |-> "rad"],
   pol_angle |-> [v |-> 45 * (Len(det) + fpk.delta), unit |-> "deg"],
   psi_uv |-> [v |-> 1, unit |-> "rad"],
   pol_leakage |-> fpk.eps]

\* obs.telescope.focalplane: one entry per detector of the telescope,
\* but for the detectors the description leaves out
Focalplane(fpk) == [d \in DetNames \ fpk.absent |-> MkProps(fpk, d)]

\* The sample streams of an observation, as patterns of the sample's place
QuatAt(seed, o, v, i, det) == QuatPool[1 + ((seed + o + v + i + Len(det)) % 3)]
SFlagAt(seed, o, v, i) == (seed + o + 2 * v + i) % 4
DFlagAt(seed, o, v, i, det) == (seed + i + Head(det)) % 4
HwpAt(seed, o, v, i) == (seed + i) % 2

\* One observation: its local detectors, the lengths of its views
\* (obs.view[self.view]), its focal plane and its sample streams.  The
\* leakage of the focal plane alternates between 1 and 0 from one
\* observation to the next
MkObs(seed, o, shape, fpk) ==
  [dets |-> shape.dets,
   views |-> shape.views,
   fp |-> Focalplane([fpk EXCEPT !.eps = (fpk.eps + o - 1) % 2]),
   quats |-> [d \in shape.dets |-> [v \in 1..Len(shape.views) |->
               [i \in 1..shape.views[v] |-> QuatAt(seed, o, v, i, d)]]],
   sflags |-> [v \in 1..Len(shape.views) |->
               [i \in 1..shape.views[v] |-> SFlagAt(seed, o, v, i)]],
   dflags |-> [d \in shape.dets |-> [v \in 1..Len(shape.views) |->
               [i \in 1..shape.views[v] |-> DFlagAt(seed, o, v, i, d)]]],
   hwp |-> [v \in 1..Len(shape.views) |->
               [i \in 1..shape.views[v] |-> HwpAt(seed, o, v, i)]]]

\* a new detdata entry: zeros for the detectors dets of an observation
\* obs.detdata[key] as an operator run before, with another det_data, left
\* it: an entry per local detector, no sample of which is zero
Previous(ob) ==
  Some([d \in ob.dets |-> [v \in 1..Len(ob.views) |->
         [i \in 1..ob.views[v] |-> v + i]]])

MkSignal(ob, dets) ==
  Some([d \in dets |-> [v \in 1..Len(ob.views) |-> [i \in 1..ob.views[v] |-> 0]]])

ShapeTwo == [dets |-> {NameAB, NameB}, views |-> <<2, 1>>]
ShapeOne == [dets |-> {NameA}, views |-> <<1>>]
ShapeEmpty == [dets |-> {NameB}, views |-> <<>>]
ShapeB == [dets |-> {NameB}, views |-> <<1, 2>>]
\* the observations of the data, in data.obs order; a run takes a prefix
ObsShapes == <<ShapeTwo, ShapeOne, ShapeEmpty, ShapeB, ShapeTwo>>

\* the observations of a list that process p owns, in the list's order
RECURSIVE OwnedBy(_, _, _)
OwnedBy(obslist, owner, p) ==
  IF obslist = <<>> THEN <<>>
  ELSE (IF Head(owner) = p THEN <<Head(obslist)>> ELSE <<>>)
       \o OwnedBy(Tail(obslist), Tail(owner), p)

FpBoth == [cols |-> {"psi_pol", "pol_angle", "psi_uv", "pol_leakage"},
           delta |-> 0, eps |-> 1, absent |-> {}]

\* detectors=None of _exec
NoSelection == [has |-> FALSE, v |-> {}]

\* an Int trait that holds None
NoInt == [has |-> FALSE, v |-> 0]
\* no trait has been assigned since construction
NoAttempt == [trait |-> "", value |-> NoInt, err |-> NoErr]
\* a Unicode trait that holds None
NoTemplate == [has |-> FALSE, v |-> ""]

\* A file name.  template.format(detector=det, mc=mc) is the template with
\* the two tags filled in; an entry of a mapping is a path as given
Format(template, det, mc) ==
  [name |-> template, detector |-> det, mc |-> mc, suffix |-> ""]
Path(name) == [name |-> name, detector |-> <<>>, mc |-> NoInt, suffix |-> ""]

\* lines 250-253 and 256-259: the file of a detector.  `det in dict` on a
\* mapping that is None is a TypeError, and so is None.format an
\* AttributeError
ResolveFile(dict, template, det, mc) ==
  IF ~dict.has THEN [err |-> "TypeError", val |-> Path("")]
  ELSE IF det \in DOMAIN dict.v THEN [err |-> NoErr, val |-> dict.v[det]]
  ELSE IF ~template.has THEN [err |-> "AttributeError", val |-> Path("")]
  ELSE [err |-> NoErr, val |-> Format(template.v, det, mc)]

\* the beam components of the strategy, in the order of their engine calls
Comps(c) == IF c.weighted THEN <<"I", "Q", "U">> ELSE <<"S">>
AllComps == {"S", "I", "Q", "U"}

\* lines 608-610: beam_file.replace(".fits", "_I000.fits") and so on
AxisFile(f, cmp) ==
  [f EXCEPT !.suffix = CASE cmp = "I" -> "_I000" [] cmp = "Q" -> "_0I00"
                         [] cmp = "U" -> "_00I0" [] OTHER -> @]

\* the objects a process holds: the Sky of get_sky, the Beam of get_beam
\* (with what beam.normalized() reports), the Pointing of get_buffer
SkyObj(f) == [role |-> "sky", comp |-> "", file |-> f, normalized |-> FALSE]
BeamObj(c, cmp, f) ==
  [role |-> "beam", comp |-> cmp, file |-> AxisFile(f, cmp),
   normalized |-> c.normalized[cmp]]
PntObj(cmp) ==
  [role |-> "pnt", comp |-> cmp, file |-> Path(""), normalized |-> FALSE]

\* lines 250-261 (602-616): the sky and beam objects of one detector, in
\* the order they are loaded, up to the first step that raises
LoadDet(c, det) ==
  LET s == ResolveFile(c.sky_file_dict, c.sky_file, det, c.mc) IN
  IF s.err # NoErr THEN [err |-> s.err, objs |-> <<>>]
  ELSE LET b == ResolveFile(c.beam_file_dict, c.beam_file, det, c.mc) IN
       IF b.err # NoErr THEN [err |-> b.err, objs |-> <<SkyObj(s.val)>>]
       ELSE [err |-> NoErr,
             objs |-> <<SkyObj(s.val)>>
                      \o [k \in 1..Len(Comps(c)) |->
                           BeamObj(c, Comps(c)[k], b.val)]]

BaseCfg ==
  [weighted |-> FALSE, available |-> TRUE, comm |-> TRUE,
   detector_pointing |-> TRUE, detectors |-> NoSelection,
   dxx |-> FALSE, apply_flags |-> FALSE,
   shared_flags |-> FALSE, shared_flag_mask |-> 0,
   det_flags |-> FALSE, det_flag_mask |-> 0,
   hwp_angle |-> FALSE, calibrate |-> TRUE, det_data |-> "signal",
   normalized |-> [c \in AllComps |-> FALSE],
   mc |-> NoInt,
   sky_file_dict |-> Some(<<>>), sky_file |-> Some("sky_{detector}_{mc}"),
   beam_file_dict |-> Some(<<>>), beam_file |-> Some("beam_{detector}_{mc}")]

\* The state when _exec is entered on every process
InitWith(c, shapes, owner, fpk, seed) ==
  LET obslist == [o \in 1..Len(shapes) |-> MkObs(seed, o, shapes[o], fpk)]
      mine(p) == OwnedBy(obslist, owner, p)
  IN /\ cfg = c
     /\ data = [p \in Procs |-> mine(p)]
     /\ detdata = [p \in Procs |-> [key \in Keys |->
                     [o \in 1..Len(mine(p)) |->
                        IF key = c.det_data THEN None
                        ELSE Previous(mine(p)[o])]]]
     /\ pc = [p \in Procs |-> "start"]
     /\ idx = [p \in Procs |-> 1]
     /\ comp = [p \in Procs |-> "S"]
     /\ my_dets = [p \in Procs |-> {}]
     /\ gathered = [p \in Procs |-> None]
     /\ bcast = None
     /\ all_dets = [p \in Procs |-> <<>>]
     /\ pnt = [p \in Procs |-> <<>>]
     /\ psi_pol = [p \in Procs |-> <<>>]
     /\ prov = [p \in Procs |-> <<>>]
     /\ conv = [p \in Procs |-> None]
     /\ calls = [p \in Procs |-> <<>>]
     /\ err = [p \in Procs |-> NoErr]
     /\ runs = 1
     /\ held = [p \in Procs |-> {}]
     /\ loads = [p \in Procs |-> <<>>]
     /\ last_set = NoAttempt

\* The partitions of n observations over the processes.  The ranks other
\* than the root differ only by their number (the gather takes a union, the
\* engine call waits for all), so of the partitions that differ by a
\* renaming of those ranks one is taken: a rank above Root + 1 owns
\* something only after the rank below it does
Partitions(n) ==
  {f \in [1..n -> Procs] :
     \A o \in 1..n :
       f[o] > Root + 1 => \E o2 \in 1..(o - 1) : f[o2] = f[o] - 1}

\* the processes that may own the only observation of a run
SoleOwners == {f[1] : f \in Partitions(1)}

\* any partition of up to MaxObs observations over the processes; both
\* strategies for up to three observations, the static one beyond
InitPartition ==
  \E n \in 0..Min(MaxObs, Len(ObsShapes)) :
    \E owner \in Partitions(n), w \in (IF n <= 3 THEN BOOLEAN ELSE {FALSE}) :
      InitWith([BaseCfg EXCEPT !.weighted = w],
               SubSeq(ObsShapes, 1, n), owner, FpBoth, 0)

\* a detector selection handed to _exec, over two observations
InitSelection ==
  \E owner \in Partitions(2), sel \in SUBSET DetNames :
    InitWith([BaseCfg EXCEPT !.detectors = Some(sel)],
             SubSeq(ObsShapes, 1, 2), owner, FpBoth, 0)

\* the masks for a flag stream: none when no stream is named, the smallest
\* and the largest when flags are not applied, every one otherwise
MasksFor(applied, named) ==
  IF ~named THEN {0} ELSE IF ~applied THEN {0, MaxMask} ELSE 0..MaxMask

\* the flag configuration: both streams optional, every mask up to MaxMask
\* for a stream that is named, two sample patterns; one process holds two
\* observations
InitFlags ==
  \E af \in BOOLEAN, sf \in BOOLEAN, df \in BOOLEAN, seed \in 0..MaxSeed :
   \E sm \in MasksFor(af, sf), dm \in MasksFor(af, df) :
    InitWith([BaseCfg EXCEPT !.apply_flags = af,
                             !.shared_flags = sf, !.shared_flag_mask = sm,
                             !.det_flags = df, !.det_flag_mask = dm],
             <<ShapeTwo, ShapeB>>, <<Root, Root>>, FpBoth, seed)

\* flags applied together with dxx or an HWP stream: both flag streams
\* optional, with mask 1; one observation on the root
InitFlaggedAngles ==
  \E sf \in BOOLEAN, df \in BOOLEAN, dx \in BOOLEAN, hw \in BOOLEAN :
    /\ dx \/ hw
    /\ InitWith([BaseCfg EXCEPT !.apply_flags = TRUE,
                                !.shared_flags = sf, !.shared_flag_mask = 1,
                                !.det_flags = df, !.det_flag_mask = 1,
                                !.dxx = dx, !.hwp_angle = hw],
                <<ShapeTwo>>, <<Root>>, FpBoth, 0)

\* the columns a focal-plane entry may expose
ColSets ==
  {{"psi_pol", "pol_angle", "psi_uv", "pol_leakage"},
   {"psi_pol", "psi_uv"},
   {"psi_pol", "pol_angle", "psi_uv", "psi_uv_deg"},
   {"psi_pol", "pol_angle", "psi_uv_deg"},
   {"pol_angle"},
   {}}

FpKinds ==
  {[cols |-> cs, delta |-> dl, eps |-> 1, absent |-> {}] :
     cs \in ColSets, dl \in {0, 2}}
    \cup {[FpBoth EXCEPT !.absent = {NameB}]}

\* the angle configuration: dxx, the HWP stream, both strategies and every
\* kind of focal plane; one observation, owned by either process
InitAngles ==
  \E dx \in BOOLEAN, hw \in BOOLEAN, w \in BOOLEAN, fpk \in FpKinds,
     p \in SoleOwners :
    InitWith([BaseCfg EXCEPT !.dxx = dx, !.hwp_angle = hw, !.weighted = w],
             <<ShapeTwo>>, <<p>>, fpk, 0)

\* the calibration configuration: the calibrate trait, what normalized()
\* answers for the beam calibrate_signal is handed (the static beam, beamI00)
\* and for the other two, both strategies; one process holds two
\* observations of different leakage
InitCalib ==
  \E cal \in BOOLEAN, nrm \in BOOLEAN, oth \in BOOLEAN, w \in BOOLEAN,
     dd \in Keys :
    InitWith([BaseCfg EXCEPT !.calibrate = cal, !.weighted = w,
                             !.det_data = dd,
                             !.normalized = [c \in AllComps |->
                                IF c \in {"S", "I"} THEN nrm ELSE oth]],
             <<ShapeTwo, ShapeB>>, <<Root, Root>>, FpBoth, 1)

\* the mappings a file trait may hold: None, an empty mapping, a mapping
\* with an entry for one of the two detectors
FileDicts(name) ==
  {None, Some(<<>>), Some([d \in {NameAB} |-> Path(name)]),
   Some([d \in {NameAB, NameB} |-> Path(name)])}

\* the file configuration: each mapping, mc None or set, both strategies,
\* with both templates set; one observation of two detectors
InitFiles ==
  \E sd \in FileDicts("sky_ab.fits"), bd \in FileDicts("beam_ab.fits"),
     m \in {NoInt, Some(1)}, w \in BOOLEAN :
    InitWith([BaseCfg EXCEPT !.sky_file_dict = sd, !.beam_file_dict = bd,
                             !.mc = m, !.weighted = w],
             <<ShapeTwo>>, <<Root>>, FpBoth, 0)

\* the collaborators: libconviqt importable or not, comm and
\* detector_pointing set or None, both strategies; one observation, owned
\* by either process
InitCollaborators ==
  \E av \in BOOLEAN, cm \in BOOLEAN, dp \in BOOLEAN, w \in BOOLEAN,
     p \in SoleOwners :
    InitWith([BaseCfg EXCEPT !.available = av, !.comm = cm,
                             !.detector_pointing = dp, !.weighted = w],
             <<ShapeTwo>>, <<p>>, FpBoth, 0)

Init ==
  \/ InitCollaborators
  \/ InitFiles
  \/ InitPartition
  \/ InitSelection
  \/ InitFlags
  \/ InitAngles
  \/ InitFlaggedAngles
  \/ InitCalib

\* ---------------------------------------------------------------- _exec
\* an exception leaves _exec: the process stops where it is
Raise(p, e) ==
  /\ err' = [err EXCEPT ![p] = e]
  /\ UNCHANGED pc

\* a process that goes on from where it is whether or not it has raised
RunningDespiteError(p, at) == pc[p] = at

Running(p, at) == pc[p] = at /\ err[p] = NoErr

\* checks that let a missing detector_pointing through
PreconditionsNoPointing(c) ==
  IF ~c.available \/ ~c.comm THEN "RuntimeError" ELSE NoErr

\* lines 228-235 (576-584): the three precondition checks
Preconditions(c) ==
  IF ~c.available THEN "RuntimeError"
  ELSE IF ~c.comm THEN "RuntimeError"
  ELSE IF ~c.detector_pointing THEN "RuntimeError"
  ELSE NoErr

\* lines 227-240 (575-590): _exec is entered and checks its preconditions
ExecStart(p) ==
  /\ Running(p, "start")
  /\ IF Preconditions(cfg) # NoErr
     THEN Raise(p, Preconditions(cfg))
     ELSE pc' = [pc EXCEPT ![p] = "collect"] /\ UNCHANGED err
  /\ UNCHANGED <<cfg, last_set, held, loads, data, detdata, idx, comp,
                 my_dets, gathered, bcast, all_dets, pnt, psi_pol, prov, conv,
                 calls, runs>>

\* obs.select_local_detectors(detectors)
SelectLocalDetectors(ob, detectors) ==
  IF detectors.has THEN ob.dets \cap detectors.v ELSE ob.dets

\* obs.detdata.ensure(self.det_data, detectors=detectors): an absent entry
\* is created with zeros for the selected detectors
Ensure(sig, ob, detectors) ==
  IF sig.has THEN sig
  ELSE MkSignal(ob, SelectLocalDetectors(ob, detectors))

\* lines 285-292: the set of the locally selected detectors
LocalDetectors(obs, detectors) ==
  UNION {SelectLocalDetectors(obs[o], detectors) : o \in 1..Len(obs)}

\* lines 285-293: the local set, the output entries, and this process's
\* part of comm.gather
CollectLocal(p) ==
  /\ Running(p, "collect")
  /\ my_dets' = [my_dets EXCEPT ![p] = LocalDetectors(data[p], cfg.detectors)]
  /\ detdata' = [detdata EXCEPT ![p][DetDataKey(cfg)] =
                   [o \in 1..Len(data[p]) |->
                      Ensure(@[o], data[p][o], cfg.detectors)]]
  /\ gathered' = [gathered EXCEPT ![p] = Some(my_dets'[p])]
  /\ pc' = [pc EXCEPT ![p] = "gathered"]
  /\ UNCHANGED <<cfg, last_set, held, loads, data, idx, comp, bcast,
                 all_dets, pnt, psi_pol, prov, conv, calls, err, runs>>

\* lines 295-296: my_dets.update(some_dets) for every gathered set
GatherUnion(mine, all) == mine \cup UNION {all[q].v : q \in Procs}

\* lines 293-298 on rank 0: gather returns once every process has sent its
\* set; the union is sorted and handed to bcast
RootMerge ==
  /\ Running(Root, "gathered")
  /\ \A q \in Procs : gathered[q].has
  /\ LET merged == Sorted(GatherUnion(my_dets[Root], gathered)) IN
       /\ bcast' = Some(merged)
       /\ all_dets' = [all_dets EXCEPT ![Root] = merged]
  /\ pc' = [pc EXCEPT ![Root] = "loop"]
  /\ UNCHANGED <<cfg, last_set, held, loads, data, detdata, idx, comp,
                 my_dets, gathered, pnt, psi_pol, prov, conv, calls, err,
                 runs>>

\* a bcast that hands every rank its own argument back
BcastOwn(p, rootval, own) == Sorted(own)

\* line 298 on the other ranks: bcast returns the root's value, whatever
\* the local argument
BcastResult(p, rootval, own) == rootval

RecvBcast(p) ==
  /\ p # Root
  /\ Running(p, "gathered")
  /\ bcast.has
  /\ all_dets' = [all_dets EXCEPT ![p] = BcastResult(p, bcast.v, my_dets[p])]
  /\ pc' = [pc EXCEPT ![p] = "loop"]
  /\ UNCHANGED <<cfg, last_set, held, loads, data, detdata, idx, comp,
                 my_dets, gathered, bcast, pnt, psi_pol, prov, conv, calls,
                 err, runs>>

\* the detector of the current iteration of `for det in all_detectors`
CurDet(p) == all_dets[p][idx[p]]

\* p is at the head of an iteration of the detector loop
AtLoopHead(p) == pc[p] = "loop" /\ idx[p] <= Len(all_dets[p])

\* lines 244 and 279 (596 and 657): the loop has gone through the agreed
\* list, and _exec returns
ExecReturn(p) ==
  /\ Running(p, "loop")
  /\ ~AtLoopHead(p)
  /\ pc' = [pc EXCEPT ![p] = "done"]
  /\ UNCHANGED <<cfg, last_set, held, loads, data, detdata, idx, comp,
                 my_dets, gathered, bcast, all_dets, pnt, psi_pol, prov, conv,
                 calls, err, runs>>

\* line 478: p enters the collective convolver.convolve(pnt) for beam
\* component c of its current detector
EnterConvolve(p, c) ==
  /\ calls' = [calls EXCEPT ![p] = Append(@, <<CurDet(p), c>>)]
  /\ comp' = [comp EXCEPT ![p] = c]
  /\ pc' = [pc EXCEPT ![p] = "in_convolve"]

\* lines 244-269 (596-626): the head of an iteration: get_pointing,
\* get_buffer, and the entry into the first engine call of the detector
StepGetPointing(p) ==
  /\ Running(p, "loop")
  /\ AtLoopHead(p)
  /\ LET l == LoadDet(cfg, CurDet(p))
         r == GetPointing(cfg, data[p], CurDet(p))
         loaded == {l.objs[k] : k \in 1..Len(l.objs)}
         objs == IF l.err # NoErr THEN loaded
                 ELSE loaded \cup {GetDetector(CurDet(p))}
     IN /\ loads' = [loads EXCEPT ![p] =
                       @ \o [k \in 1..Len(l.objs) |->
                              [det |-> CurDet(p), obj |-> l.objs[k]]]]
        /\ data' = [data EXCEPT ![p] =
                      IF l.err # NoErr THEN @
                      ELSE StoredAfterPointing(cfg, @, CurDet(p))]
        /\ IF l.err # NoErr \/ r.err # NoErr
           THEN /\ Raise(p, IF l.err # NoErr THEN l.err ELSE r.err)
                /\ held' = [held EXCEPT ![p] = objs]
                /\ UNCHANGED <<pnt, psi_pol, prov, comp, calls>>
           ELSE /\ pnt' = [pnt EXCEPT ![p] = r.rows]
                /\ psi_pol' = [psi_pol EXCEPT ![p] = r.psi_pol]
                /\ prov' = [prov EXCEPT ![p] = r.prov]
                /\ held' = [held EXCEPT ![p] = objs \cup {PntObj(Comps(cfg)[1])}]
                /\ EnterConvolve(p, Comps(cfg)[1])
                /\ UNCHANGED err
  /\ UNCHANGED <<cfg, last_set, detdata, idx, my_dets, gathered, bcast,
                 all_dets, conv, runs>>

\* the collective call returns on p once every process of the group has
\* entered the same call
AllEntered(p) ==
  \A q \in Procs :
    /\ Len(calls[q]) >= Len(calls[p])
    /\ calls[q][Len(calls[p])] = calls[p][Len(calls[p])]

\* the engine calls of one detector are over: on to calibrate_signal
ToCalibrate(p) ==
  /\ pc' = [pc EXCEPT ![p] = "calibrate"]
  /\ UNCHANGED <<comp, calls, held>>

\* lines 627-630 and 634-637: del pnt, a new get_buffer, and the entry into
\* the engine call of the next component
NextComponent(p, c) ==
  /\ held' = [held EXCEPT ![p] =
                {h \in @ : h.role # "pnt"} \cup {PntObj(c)}]
  /\ EnterConvolve(p, c)

\* the descriptor p made for its current detector (line 263, 620)
HeldDetector(p) == CHOOSE h \in held[p] : h.role = "detector"

\* lines 478-495: the collective call returns.  In the weighted strategy
\* the I term is stored (line 626), the Q and U terms are added with their
\* weights (lines 631 and 638), and after I and Q the process goes on into
\* the next engine call (lines 628-630, 635-637)
ConvolveReturn(p) ==
  /\ Running(p, "in_convolve")
  /\ AllEntered(p)
  /\ LET piece == Convolve(HeldDetector(p), comp[p], pnt[p]) IN
       IF comp[p] \in {"S", "I"}
       THEN /\ conv' = [conv EXCEPT ![p] = piece]
            /\ IF comp[p] = "I" THEN NextComponent(p, "Q") ELSE ToCalibrate(p)
            /\ UNCHANGED err
       ELSE LET w == [k \in 1..Len(psi_pol[p]) |->
                       IF comp[p] = "Q" THEN Cos2(psi_pol[p][k])
                       ELSE Sin2(psi_pol[p][k])]
                r == WeightedAdd(conv[p], w, piece)
            IN IF r.err # NoErr
               THEN Raise(p, r.err) /\ UNCHANGED <<conv, comp, calls, held>>
               ELSE /\ conv' = [conv EXCEPT ![p] = r.val]
                    /\ IF comp[p] = "Q" THEN NextComponent(p, "U")
                       ELSE ToCalibrate(p)
                    /\ UNCHANGED err
  /\ UNCHANGED <<cfg, last_set, loads, data, detdata, idx, my_dets, gathered,
                 bcast, all_dets, pnt, psi_pol, prov, runs>>

\* a test that any beam the process holds reports itself normalized
BeamAnyNormalized(p) ==
  \E h \in held[p] : h.role = "beam" /\ h.normalized

\* beam.normalized() of the beam handed to calibrate_signal: the static
\* beam, or beamI00 in the weighted strategy
BeamNormalized(p) ==
  \E h \in held[p] :
    h.role = "beam" /\ h.comp = Comps(cfg)[1] /\ h.normalized

\* line 271 (643-649): calibrate_signal with the static beam (the I beam)
StepCalibrate(p) ==
  /\ Running(p, "calibrate")
  /\ LET r == CalibrateSignal(cfg, data[p], CurDet(p), BeamNormalized(p),
                              conv[p])
     IN IF r.err # NoErr
        THEN Raise(p, r.err) /\ UNCHANGED conv
        ELSE /\ conv' = [conv EXCEPT ![p] = r.val]
             /\ pc' = [pc EXCEPT ![p] = "save"]
             /\ UNCHANGED err
  /\ UNCHANGED <<cfg, last_set, held, loads, data, detdata, idx, comp,
                 my_dets, gathered, bcast, all_dets, pnt, psi_pol, prov,
                 calls, runs>>

\* line 272 (650): save.  What it wrote before an exception stays written
StepSave(p) ==
  /\ Running(p, "save")
  /\ LET r == Save(detdata[p][DetDataKey(cfg)], data[p], CurDet(p), conv[p]) IN
       /\ detdata' = [detdata EXCEPT ![p][DetDataKey(cfg)] = r.sig]
       /\ IF r.err # NoErr
          THEN Raise(p, r.err)
          ELSE pc' = [pc EXCEPT ![p] = "end_iter"] /\ UNCHANGED err
  /\ UNCHANGED <<cfg, last_set, held, loads, data, idx, comp, my_dets,
                 gathered, bcast, all_dets, pnt, psi_pol, prov, conv, calls,
                 runs>>

\* an end of iteration that deletes the pointing buffer and the descriptor
\* and keeps the sky and the beams bound
EndIterationKeepHandles(p) ==
  /\ Running(p, "end_iter")
  /\ pnt' = [pnt EXCEPT ![p] = <<>>]
  /\ held' = [held EXCEPT ![p] = {h \in @ : h.role \in {"sky", "beam"}}]
  /\ idx' = [idx EXCEPT ![p] = @ + 1]
  /\ pc' = [pc EXCEPT ![p] = "loop"]
  /\ UNCHANGED <<cfg, last_set, loads, data, detdata, comp, my_dets, gathered,
                 bcast, all_dets, psi_pol, prov, conv, calls, err, runs>>

\* lines 274-277 (652-655): del pnt, detector, beam, sky, and the loop
\* moves to the next detector.  convolved_data and psi_pol stay bound until
\* the next iteration rebinds them
EndIteration(p) ==
  /\ Running(p, "end_iter")
  /\ pnt' = [pnt EXCEPT ![p] = <<>>]
  /\ held' = [held EXCEPT ![p] = {}]
  /\ idx' = [idx EXCEPT ![p] = @ + 1]
  /\ pc' = [pc EXCEPT ![p] = "loop"]
  /\ UNCHANGED <<cfg, last_set, loads, data, detdata, comp, my_dets, gathered,
                 bcast, all_dets, psi_pol, prov, conv, calls, err, runs>>

\* The caller applies the operator again to the same data, on every
\* process, once the previous invocation has returned everywhere; it does
\* so with an operator of default traits, in either strategy
Reinvoke ==
  /\ runs < MaxRuns
  /\ cfg \in {[BaseCfg EXCEPT !.weighted = w] : w \in BOOLEAN}
  /\ \A p \in Procs : Running(p, "done")
  /\ runs' = runs + 1
  /\ pc' = [p \in Procs |-> "start"]
  /\ idx' = [p \in Procs |-> 1]
  /\ comp' = [p \in Procs |-> "S"]
  /\ my_dets' = [p \in Procs |-> {}]
  /\ gathered' = [p \in Procs |-> None]
  /\ bcast' = None
  /\ all_dets' = [p \in Procs |-> <<>>]
  /\ pnt' = [p \in Procs |-> <<>>]
  /\ psi_pol' = [p \in Procs |-> <<>>]
  /\ prov' = [p \in Procs |-> <<>>]
  /\ conv' = [p \in Procs |-> None]
  /\ calls' = [p \in Procs |-> <<>>]
  /\ held' = [p \in Procs |-> {}]
  /\ loads' = [p \in Procs |-> <<>>]
  /\ UNCHANGED <<cfg, last_set, data, detdata, err>>

Next ==
  \/ \E p \in Procs : ExecStart(p)
  \/ \E p \in Procs : CollectLocal(p)
  \/ RootMerge
  \/ \E p \in Procs : RecvBcast(p)
  \/ \E p \in Procs : ExecReturn(p)
  \/ \E p \in Procs : StepGetPointing(p)
  \/ \E p \in Procs : ConvolveReturn(p)
  \/ \E p \in Procs : StepCalibrate(p)
  \/ \E p \in Procs : StepSave(p)
  \/ \E p \in Procs : EndIteration(p)
  \/ Reinvoke

Spec == Init /\ [][Next]_vars

\* Every process runs: a step that can be taken is eventually taken.  A
\* process inside a collective call can take one only when the others have
\* entered the call.  The runs are those over any partition of the
\* observations and over every angle configuration
InitLive == InitPartition \/ InitAngles

SpecLive == InitLive /\ [][Next]_vars /\ WF_vars(Next)

\* ------------------------------------------------- assignments to traits
\* lines 107-112: the validator of mc
CheckMcAny(check) == NoErr

CheckMc(check) ==
  IF check.has /\ check.v < 0 THEN "TraitError" ELSE NoErr

\* lines 199-204 and 206-211: the validators of the two masks
CheckSharedFlagMask(check) == IF check < 0 THEN "TraitError" ELSE NoErr
CheckDetFlagMask(check) == IF check < 0 THEN "TraitError" ELSE NoErr

\* the values a caller assigns: integers of either sign, and None for mc
MaskInputs == -MaxMask..MaxMask
McInputs == {NoInt} \cup {Some(k) : k \in -MaxMc..MaxMc}

\* An assignment to a validated trait.  The validator runs on the proposed
\* value; when it raises, the assignment is abandoned and the trait keeps
\* its value
SetTrait(name, proposed, stored, e) ==
  /\ last_set' = [trait |-> name, value |-> proposed, err |-> e]
  /\ cfg' = IF e # NoErr THEN cfg ELSE [cfg EXCEPT ![name] = stored]
  /\ UNCHANGED <<data, detdata, pc, idx, comp, my_dets, gathered, bcast,
                 all_dets, pnt, psi_pol, prov, conv, calls, err, runs, held,
                 loads>>

SetSharedFlagMask ==
  \E v \in MaskInputs :
    SetTrait("shared_flag_mask", Some(v), v, CheckSharedFlagMask(v))

SetDetFlagMask ==
  \E v \in MaskInputs :
    SetTrait("det_flag_mask", Some(v), v, CheckDetFlagMask(v))

SetMc == \E v \in McInputs : SetTrait("mc", v, v, CheckMc(v))

\* the operator as constructed with the defaults of its traits, before
\* _exec is called
InitTraits == InitWith(BaseCfg, <<ShapeTwo>>, <<Root>>, FpBoth, 0)

NextTraits == SetSharedFlagMask \/ SetDetFlagMask \/ SetMc

SpecTraits == InitTraits /\ [][NextTraits]_vars

\* ------------------------------------------------- save called on its own
\* save(data, det, convolved_data, verbose) entered on every process with
\* a buffer of any length up to MaxBuf (or None), over output entries that
\* exist and hold zeros
InitSave ==
  \E n \in 1..Min(MaxObs, Len(ObsShapes)) :
    \E owner \in [1..n -> Procs],
       det \in DetNames, len \in 0..MaxBuf, none \in BOOLEAN :
      LET obslist == [o \in 1..n |-> MkObs(0, o, ObsShapes[o], FpBoth)]
          mine(p) == OwnedBy(obslist, owner, p)
      IN /\ cfg = BaseCfg
         /\ data = [p \in Procs |-> mine(p)]
         /\ detdata = [p \in Procs |-> [key \in Keys |->
                         [o \in 1..Len(mine(p)) |->
                            IF key = BaseCfg.det_data
                            THEN MkSignal(mine(p)[o], mine(p)[o].dets)
                            ELSE Previous(mine(p)[o])]]]
         /\ pc = [p \in Procs |-> "save"]
         /\ idx = [p \in Procs |-> 1]
         /\ comp = [p \in Procs |-> "S"]
         /\ my_dets = [p \in Procs |-> {}]
         /\ gathered = [p \in Procs |-> None]
         /\ bcast = None
         /\ all_dets = [p \in Procs |-> <<det>>]
         /\ pnt = [p \in Procs |-> <<>>]
         /\ psi_pol = [p \in Procs |-> <<>>]
         /\ prov = [p \in Procs |-> <<>>]
         /\ conv = [p \in Procs |->
                      IF none /\ len = 0 THEN None
                      ELSE Some([k \in 1..len |-> 100 * k])]
         /\ calls = [p \in Procs |-> <<>>]
         /\ err = [p \in Procs |-> NoErr]
         /\ runs = 1
         /\ held = [p \in Procs |-> {}]
         /\ loads = [p \in Procs |-> <<>>]
         /\ last_set = NoAttempt

NextSave == \E p \in Procs : StepSave(p)

SpecSave == InitSave /\ [][NextSave]_vars


\* ================================================================ claims
\* the processes on which _get_all_detectors has returned
LoopPcs == {"loop", "in_convolve", "calibrate",
            "save", "end_iter", "done"}
\* the processes that hold the pointing stream of the current detector
PntPcs == {"in_convolve", "calibrate", "save", "end_iter"}

AllLocalSelected == UNION {LocalDetectors(data[p], cfg.detectors) : p \in Procs}
IsAscending(L) == \A i, j \in 1..Len(L) : i < j => LexLess(L[i], L[j])

\* C1: once _get_all_detectors has returned on a process, the list it
\* returned holds exactly the union of all processes' locally selected
\* detector names, each once, in ascending lexicographic order, and it is
\* the list every other process got
C1_AgreedSortedUnion ==
  \A p \in Procs :
    pc[p] \in LoopPcs =>
      /\ {all_dets[p][i] : i \in 1..Len(all_dets[p])} = AllLocalSelected
      /\ Len(all_dets[p]) = Cardinality(AllLocalSelected)
      /\ IsAscending(all_dets[p])
      /\ \A q \in Procs : pc[q] \in LoopPcs => all_dets[q] = all_dets[p]

\* a process other than the root that owns no observation holds the list
\* of three names the other processes' observations give
C1_Witness ==
  \E p \in Procs \ {Root} :
    /\ Len(data[p]) = 0
    /\ pc[p] \in LoopPcs
    /\ Len(all_dets[p]) = 3
    /\ pc[Root] \in LoopPcs

IsPrefix(s, t) == Len(s) <= Len(t) /\ SubSeq(t, 1, Len(s)) = s

\* the engine calls of one invocation over the agreed list L
ExpectedCalls(L) ==
  Flatten([k \in 1..Len(L) |->
            IF cfg.weighted THEN <<<<L[k], "I">>, <<L[k], "Q">>, <<L[k], "U">>>>
            ELSE <<<<L[k], "S">>>>])

\* every focal-plane entry of every local observation exposes the columns cs
FocalplanesExpose(cs) ==
  \A p \in Procs : \A o \in 1..Len(data[p]) : \A d \in DOMAIN data[p][o].fp :
    cs \subseteq data[p][o].fp[d].cols

\* process p has left the invocation: it returned, or an exception left _exec
HasLeft(p) == pc[p] = "done" \/ err[p] # NoErr

\* C2: with focal planes that expose psi_pol and psi_uv, every process issues
\* the same sequence of collective engine calls, in the order of the agreed
\* detector list: what a process has issued is a prefix of the calls the
\* agreed list gives, and a process that has left the invocation has issued
\* every call any other process has issued
C2_SameCallSequence ==
  FocalplanesExpose({"psi_pol", "psi_uv"}) =>
    \A p \in Procs :
      /\ pc[p] \in LoopPcs => IsPrefix(calls[p], ExpectedCalls(all_dets[p]))
      /\ HasLeft(p) => \A q \in Procs : IsPrefix(calls[q], calls[p])

\* p is in an iteration of the detector loop
InIteration(p) == AtLoopHead(p) \/ pc[p] \in PntPcs

\* the detector of p's current iteration has no local sample on p
NoLocalSamples(p) ==
  /\ InIteration(p)
  /\ TotalSamples(data[p], CurDet(p)) = 0

\* C3: while a process works on a detector that has no local sample on it,
\* and whose sky and beams the loaders have delivered, no step of the
\* extract, convolve, calibrate, accumulate sequence raises an error or
\* changes any stored signal of the process, in both strategies
C3_ZeroSamplesNoOp ==
  [][\A p \in Procs :
       (NoLocalSamples(p) /\ err[p] = NoErr
          /\ LoadDet(cfg, CurDet(p)).err = NoErr) =>
         (err'[p] = NoErr /\ signal'[p] = signal[p])]_vars

\* the weighted strategy has gone through extract, three engine calls,
\* calibrate and save for a detector that a local observation holds in a
\* view of zero intervals
C3_Witness ==
  \E p \in Procs :
    /\ cfg.weighted
    /\ pc[p] = "end_iter" /\ err[p] = NoErr
    /\ NoLocalSamples(p)
    /\ \E o \in 1..Len(data[p]) : CurDet(p) \in data[p][o].dets
    /\ Len(calls[p]) >= 3

\* the length of a buffer; None holds no sample
BufLen(b) == IF b.has THEN Len(b.v) ELSE 0

\* C4: save returns normally only when the length of the buffer equals the
\* total number of samples of the detector over the local views it
\* traverses; a buffer that is too short or too long makes it fail
C4_SaveRejectsLengthMismatch ==
  \A p \in Procs :
    (pc[p] = "end_iter" /\ err[p] = NoErr) =>
      BufLen(conv[p]) = TotalSamples(data[p], CurDet(p))

\* convolve has returned the buffer of the current detector on p (in the
\* weighted strategy: the I term has been stored)
HasBuffer(p) ==
  \/ pc[p] \in {"calibrate", "save", "end_iter"}
  \/ pc[p] = "in_convolve" /\ comp[p] \in {"Q", "U"}

\* the combined flag of the sample row k of p's pointing stream came from
FlagOfRow(p, k) ==
  LET s == prov[p][k] IN SampleFlag(cfg, data[p][s[1]], CurDet(p), s[2], s[3])

\* C5: the pointing stream of a detector on a process has one row per
\* sample of the detector over all views of all local observations that
\* hold it, flagged or not, and the buffer convolve returned has that many
\* values (with no sample there is no buffer, or an empty one)
C5_StreamAndBufferLengths ==
  \A p \in Procs :
    pc[p] \in PntPcs =>
      LET n == TotalSamples(data[p], CurDet(p)) IN
        /\ Len(pnt[p]) = n
        /\ HasBuffer(p) =>
             IF conv[p].has THEN Len(conv[p].v) = n ELSE n = 0

\* flags are applied, a sample of the stream is flagged, and the stream and
\* the buffer hold three samples or more
C5_Witness ==
  \E p \in Procs :
    /\ cfg.apply_flags
    /\ pc[p] = "calibrate"
    /\ conv[p].has /\ Len(conv[p].v) >= 3 /\ Len(pnt[p]) = Len(conv[p].v)
    /\ \E k \in 1..Len(pnt[p]) : FlagOfRow(p, k) \notin {NoFlag, 0}

\* the stored sample s = <<o, v, i>> of p's current detector in sig
StoredIn(sig, p, s) == sig[p][s[1]].v[CurDet(p)][s[2]][s[3]]

\* C6: the step that saves detector d leaves in every stored sample of d
\* the value it held before plus the buffer value of that sample, so that
\* after the save of invocation number r on storage that began with zeros
\* the sample holds r times the buffer value
C6_SaveAdds ==
  [][\A p \in Procs :
       (pc[p] = "save" /\ pc'[p] = "end_iter" /\ conv[p].has) =>
         \A k \in 1..Len(prov[p]) :
           /\ StoredIn(signal', p, prov[p][k])
                = StoredIn(signal, p, prov[p][k]) + conv[p].v[k]
           /\ StoredIn(signal', p, prov[p][k]) = runs * conv[p].v[k]]_vars

\* the second invocation has saved a detector of three samples or more
C6_Witness ==
  \E p \in Procs :
    /\ runs = 2
    /\ pc[p] = "end_iter"
    /\ conv[p].has /\ Len(conv[p].v) >= 3 /\ Len(prov[p]) = Len(conv[p].v)
    /\ \A k \in 1..Len(prov[p]) :
         /\ conv[p].v[k] # 0
         /\ StoredIn(signal, p, prov[p][k]) = 2 * conv[p].v[k]

\* the samples of a detector in the claimed order: local observations that
\* hold it in data.obs order, then views in index order, then time
Traversal(obs, det) ==
  Flatten([o \in 1..Len(obs) |->
            IF det \in obs[o].dets
            THEN Flatten([v \in 1..Len(obs[o].views) |->
                           [i \in 1..obs[o].views[v] |-> <<o, v, i>>]])
            ELSE <<>>])

\* C7: after the first save into storage that began with zeros, the k-th
\* pointing row came from the k-th sample of the traversal (observations in
\* data.obs order, views in index order, time), and reading the stored
\* samples back in that order gives the buffer
C7_RoundTrip ==
  \A p \in Procs :
    (runs = 1 /\ pc[p] = "end_iter" /\ conv[p].has) =>
      LET T == Traversal(data[p], CurDet(p)) IN
        /\ prov[p] = T
        /\ [k \in 1..Len(T) |-> StoredIn(signal, p, T[k])] = conv[p].v

\* a buffer over two observations and several views, with values that
\* differ, has been saved
C7_Witness ==
  \E p \in Procs :
    /\ runs = 1 /\ pc[p] = "end_iter" /\ conv[p].has
    /\ Len(conv[p].v) >= 4
    /\ \E j, k \in 1..Len(prov[p]) :
         /\ prov[p][j][1] # prov[p][k][1]
         /\ conv[p].v[j] # conv[p].v[k]
    /\ \E j, k \in 1..Len(prov[p]) :
         /\ prov[p][j][1] = prov[p][k][1] /\ prov[p][j][2] # prov[p][k][2]
         /\ conv[p].v[j] # conv[p].v[k]

\* the combined flag mask of a sample: (shared flag AND shared_flag_mask) OR
\* (detector flag AND det_flag_mask), a stream that is not named giving 0
CombinedMask(c, ob, det, v, i) ==
  BitOr(IF c.shared_flags THEN BitAnd(ob.sflags[v][i], c.shared_flag_mask) ELSE 0,
        IF c.det_flags THEN BitAnd(ob.dflags[det][v][i], c.det_flag_mask) ELSE 0)

\* the angles of quaternion q with the polarization angle e taken off psi
AnglesOf(q, e) ==
  [theta |-> ToAngles(q).theta, phi |-> ToAngles(q).phi,
   psi |-> ToAngles(q).psi - e]

\* row k of p's pointing stream holds the angles of the null orientation
\* when nulled(ob, det, v, i) holds of its sample, and of its own stored
\* quaternion otherwise
RowNulledWhen(p, k, nulled(_, _, _, _)) ==
  LET s == prov[p][k]
      ob == data[p][s[1]]
      det == CurDet(p)
      e == EffectivePsiPol(cfg, ob.fp, det).val
  IN pnt[p][k] = AnglesOf(IF nulled(ob, det, s[2], s[3]) THEN nullquat
                          ELSE ob.quats[det][s[2]][s[3]], e)

\* C8 as stated: every sample whose combined flag mask is nonzero gets the
\* angles of the null orientation, every other sample the angles of its own
\* quaternion
C8_NulledByMask ==
  \A p \in Procs :
    pc[p] \in PntPcs =>
      \A k \in 1..Len(pnt[p]) :
        RowNulledWhen(p, k,
          LAMBDA ob, det, v, i : CombinedMask(cfg, ob, det, v, i) # 0)

\* C8 amended: with apply_flags enabled, every sample whose combined flag
\* mask is nonzero gets the angles of the null orientation and every other
\* sample the angles of its own quaternion; with apply_flags disabled every
\* sample keeps the angles of its own quaternion, whatever its flags
C8_NulledByMaskWhenApplied ==
  \A p \in Procs :
    pc[p] \in PntPcs =>
      \A k \in 1..Len(pnt[p]) :
        RowNulledWhen(p, k,
          LAMBDA ob, det, v, i :
            cfg.apply_flags /\ CombinedMask(cfg, ob, det, v, i) # 0)

\* with apply_flags enabled the stream holds a flagged sample and an
\* unflagged one, both stored with an orientation other than the null one,
\* the flagged one flagged by one of the two streams only
C8_Witness ==
  \E p \in Procs :
    /\ cfg.apply_flags /\ cfg.shared_flags /\ cfg.det_flags
    /\ pc[p] = "in_convolve"
    /\ \E j, k \in 1..Len(pnt[p]) :
         LET sj == prov[p][j]
             sk == prov[p][k]
             obj == data[p][sj[1]]
             obk == data[p][sk[1]]
             det == CurDet(p)
         IN /\ CombinedMask(cfg, obj, det, sj[2], sj[3]) # 0
            /\ BitAnd(obj.sflags[sj[2]][sj[3]], cfg.shared_flag_mask) = 0
            /\ obj.quats[det][sj[2]][sj[3]] # nullquat
            /\ pnt[p][j].theta = ToAngles(nullquat).theta
            /\ CombinedMask(cfg, obk, det, sk[2], sk[3]) = 0
            /\ obk.quats[det][sk[2]][sk[3]] # nullquat
            /\ pnt[p][k].theta # ToAngles(nullquat).theta

\* the focal-plane entry of p's current detector in every local observation
\* that holds it exposes the columns cs
EntriesExpose(p, cs) ==
  \A o \in 1..Len(data[p]) :
    CurDet(p) \in data[p][o].dets => cs \subseteq data[p][o].fp[CurDet(p)].cols

\* get_pointing has not failed on p, and every row of the stream it built
\* has the angle a(entry) of the sample's focal-plane entry taken off psi
\* and as the base of the psi_pol array
UsesAngle(p, a(_)) ==
  /\ AtLoopHead(p) => err[p] = NoErr
  /\ pc[p] \in PntPcs =>
       \A k \in 1..Len(pnt[p]) :
         LET s == prov[p][k]
             ob == data[p][s[1]]
             e == a(ob.fp[CurDet(p)])
         IN /\ pnt[p][k].psi
                 = ToAngles(SampleQuat(cfg, ob, CurDet(p), s[2], s[3])).psi - e
            /\ psi_pol[p][k]
                 = e + (IF cfg.hwp_angle THEN 2 * ob.hwp[s[2]][s[3]] ELSE 0)

\* C9: with dxx=false and focal-plane entries that expose psi_pol,
\* get_pointing succeeds and the effective polarization angle is the
\* entry's psi_pol value
C9_PsiPolUsed ==
  \A p \in Procs :
    (~cfg.dxx /\ InIteration(p) /\ EntriesExpose(p, {"psi_pol"})) =>
      UsesAngle(p, LAMBDA props : ToValueRadian(props.psi_pol))

\* C10: with dxx=true and focal-plane entries that expose psi_pol and
\* psi_uv, get_pointing completes and the effective polarization angle is
\* psi_pol + psi_uv
C10_PsiPolPlusPsiUvUsed ==
  \A p \in Procs :
    (cfg.dxx /\ InIteration(p) /\ EntriesExpose(p, {"psi_pol", "psi_uv"})) =>
      UsesAngle(p, LAMBDA props :
                     ToValueRadian(props.psi_pol) + ToValueRadian(props.psi_uv))

\* C11: in the weighted strategy, once the three engine calls of a detector
\* have returned, sample k of the combined signal is the I output plus
\* cos(2 psi_pol[k]) times the Q output plus sin(2 psi_pol[k]) times the U
\* output, the three outputs being those of the I, Q and U calls, the last
\* three calls of the process, over the same pointing row; with all three
\* outputs 1 that is 2 for psi_pol = 0 and 2 for psi_pol = pi/4
C11_WeightedRecombination ==
  /\ 1 + Cos2(0) * 1 + Sin2(0) * 1 = 2
  /\ 1 + Cos2(1) * 1 + Sin2(1) * 1 = 2
  /\ \A p \in Procs :
       (cfg.weighted /\ pc[p] = "calibrate" /\ Len(pnt[p]) > 0) =>
         /\ conv[p].has /\ Len(conv[p].v) = Len(pnt[p])
         /\ Len(calls[p]) >= 3
         /\ SubSeq(calls[p], Len(calls[p]) - 2, Len(calls[p]))
              = <<<<CurDet(p), "I">>, <<CurDet(p), "Q">>, <<CurDet(p), "U">>>>
         /\ \A k \in 1..Len(pnt[p]) :
              conv[p].v[k]
                = EngineValue(CurDet(p), "I", pnt[p][k])
                  + Cos2(psi_pol[p][k]) * EngineValue(CurDet(p), "Q", pnt[p][k])
                  + Sin2(psi_pol[p][k]) * EngineValue(CurDet(p), "U", pnt[p][k])

\* the weighted strategy has combined a detector whose psi_pol array, with
\* an HWP stream, holds an entry with cos(2 psi_pol) = 1 and one with
\* cos(2 psi_pol) = -1
C11_Witness ==
  \E p \in Procs :
    /\ cfg.weighted /\ cfg.hwp_angle /\ pc[p] = "calibrate" /\ conv[p].has
    /\ \E j, k \in 1..Len(psi_pol[p]) :
         Cos2(psi_pol[p][j]) = 1 /\ Cos2(psi_pol[p][k]) = -1

\* the leakage calibrate_signal reads for the observation that buffer
\* entry k of process p comes from
EpsilonOfEntry(p, k) ==
  GetEpsilon(data[p][prov[p][k][1]].fp, CurDet(p)).val

\* C12: calibrate_signal changes nothing when the beam it is handed reports
\* itself normalized, or when the calibrate trait is off: the step from
\* calibrate to save leaves the convolved buffer as it was, whatever the
\* leakage of the detector in each observation
C12_CalibrateNoOp ==
  [][\A p \in Procs :
       (pc[p] = "calibrate" /\ pc'[p] = "save"
          /\ (~cfg.calibrate \/ BeamNormalized(p)))
         => conv'[p] = conv[p]]_vars

\* a calibration skipped on a buffer with a non-zero entry of an
\* observation whose leakage is 0, where scaling would have doubled it
C12_Witness ==
  \E p \in Procs :
    /\ pc[p] = "save" /\ conv[p].has
    /\ ~cfg.calibrate \/ BeamNormalized(p)
    /\ \E k \in 1..Len(conv[p].v) :
         conv[p].v[k] # 0 /\ EpsilonOfEntry(p, k) = 0
    /\ \E k \in 1..Len(conv[p].v) : EpsilonOfEntry(p, k) = 1

\* C13: with calibrate on and a beam that is not normalized, the calibrate
\* step multiplies every sample of the buffer once by 2 / (1 + epsilon),
\* epsilon the leakage the detector has in the observation the sample comes
\* from: (1 + epsilon) times the new sample is twice the old one, so a
\* sample of a leakage-0 observation is exactly doubled.  The buffer keeps
\* its length
C13_CalibrateScales ==
  [][\A p \in Procs :
       (pc[p] = "calibrate" /\ pc'[p] = "save"
          /\ cfg.calibrate /\ ~BeamNormalized(p) /\ conv[p].has)
         => /\ conv'[p].has
            /\ Len(conv'[p].v) = Len(conv[p].v)
            /\ \A k \in 1..Len(conv[p].v) :
                 /\ (1 + EpsilonOfEntry(p, k)) * conv'[p].v[k]
                      = 2 * conv[p].v[k]
                 /\ EpsilonOfEntry(p, k) = 0
                      => conv'[p].v[k] = 2 * conv[p].v[k]]_vars

\* a calibrated buffer that covers an observation of leakage 1 followed by
\* one of leakage 0, with a non-zero sample in each
C13_Witness ==
  \E p \in Procs :
    /\ pc[p] = "save" /\ conv[p].has
    /\ cfg.calibrate /\ ~BeamNormalized(p)
    /\ \E j, k \in 1..Len(conv[p].v) :
         /\ j < k
         /\ EpsilonOfEntry(p, j) = 1 /\ conv[p].v[j] # 0
         /\ EpsilonOfEntry(p, k) = 0 /\ conv[p].v[k] # 0

\* the file the claim names for a detector: the entry of the mapping when
\* there is one, the filled-in template otherwise
ClaimedFile(dict, template, det, mc) ==
  IF dict.has /\ det \in DOMAIN dict.v THEN dict.v[det]
  ELSE Format(template.v, det, mc)

\* C14: every sky and every beam a process has loaded comes from the file
\* the mapping names for the detector, or from the template with detector
\* and mc filled in when the mapping has no entry or is None (in the
\* weighted strategy, with the suffix of the beam component); a process
\* inside an iteration has loaded the sky and the beams of its detector;
\* and with both templates set nothing raises at the head of an iteration
\* but get_pointing
C14_FileResolution ==
  \A p \in Procs :
    /\ \A k \in 1..Len(loads[p]) :
         LET l == loads[p][k] IN
           /\ l.obj.role = "sky" =>
                l.obj.file = ClaimedFile(cfg.sky_file_dict, cfg.sky_file,
                                         l.det, cfg.mc)
           /\ l.obj.role = "beam" =>
                l.obj.file = AxisFile(ClaimedFile(cfg.beam_file_dict,
                                                  cfg.beam_file, l.det,
                                                  cfg.mc), l.obj.comp)
    /\ (pc[p] \in PntPcs) =>
         /\ \E h \in held[p] : h.role = "sky"
         /\ \A k \in 1..Len(Comps(cfg)) :
              \E h \in held[p] : h.role = "beam" /\ h.comp = Comps(cfg)[k]
    /\ (pc[p] = "loop" /\ err[p] # NoErr
          /\ cfg.sky_file.has /\ cfg.beam_file.has) =>
         err[p] = GetPointing(cfg, data[p], CurDet(p)).err

\* a collaborator of _exec is missing
PreconditionFails == ~cfg.available \/ ~cfg.comm \/ ~cfg.detector_pointing

\* C15: when libconviqt is unavailable, or comm is None, or
\* detector_pointing is None, the only thing a process does is raise
\* RuntimeError at the entry of _exec: after every step each process is
\* still at the entry, has taken no part in the gather or the broadcast,
\* has loaded nothing, made no engine call and holds no buffer; no output
\* entry exists and the observations are as they were; and a process that
\* has raised stays raised, it does not check again
C15_PreconditionsRaiseFirst ==
  [][PreconditionFails =>
       /\ data' = data /\ cfg' = cfg
       /\ bcast' = None
       /\ \A p \in Procs :
            /\ pc'[p] = "start"
            /\ err'[p] \in {NoErr, "RuntimeError"}
            /\ err[p] # NoErr => err'[p] = err[p]
            /\ my_dets'[p] = {} /\ gathered'[p] = None
            /\ all_dets'[p] = <<>>
            /\ loads'[p] = <<>> /\ held'[p] = {} /\ calls'[p] = <<>>
            /\ pnt'[p] = <<>> /\ conv'[p] = None
            /\ \A o \in 1..Len(signal'[p]) : signal'[p][o] = None]_vars

\* every process has raised on a missing detector_pointing, in the
\* weighted strategy, with an observation on one of them
C15_Witness ==
  /\ cfg.available /\ cfg.comm /\ ~cfg.detector_pointing /\ cfg.weighted
  /\ \A p \in Procs : err[p] = "RuntimeError" /\ pc[p] = "start"
  /\ \E p \in Procs : Len(data[p]) > 0

\* C16: an assignment of a negative value to shared_flag_mask,
\* det_flag_mask or mc raises TraitError and leaves every trait as it was;
\* an assignment of zero or a positive value to a mask, and of None or a
\* non-negative integer to mc, raises nothing and the trait then holds the
\* value assigned, the other traits being as they were
C16_NegativeRejected ==
  [][LET a == last_set'
         negative == a.value.has /\ a.value.v < 0
     IN /\ a.trait \in {"shared_flag_mask", "det_flag_mask", "mc"}
        /\ a.err = (IF negative THEN "TraitError" ELSE NoErr)
        /\ negative => cfg' = cfg
        /\ ~negative =>
             cfg' = [cfg EXCEPT ![a.trait] =
                       IF a.trait = "mc" THEN a.value ELSE a.value.v]]_vars

\* a negative mc refused after mc, and both masks, had been set: the
\* values set before are still there
C16_Witness ==
  /\ last_set = [trait |-> "mc", value |-> Some(-1), err |-> "TraitError"]
  /\ cfg.mc = Some(MaxMc)
  /\ cfg.shared_flag_mask = MaxMask /\ cfg.det_flag_mask = 1

\* every process has returned from _exec with the engine calls of the
\* agreed list, one per detector or three
AllReturned ==
  \A p \in Procs :
    /\ pc[p] = "done" /\ err[p] = NoErr
    /\ calls[p] = ExpectedCalls(all_dets[p])

\* C18: when the collaborators are there and the file mappings are dicts,
\* then for any partition of the observations every process eventually
\* returns from _exec, having made one engine call per agreed detector in
\* the static strategy and three in the weighted one; so no process stays
\* in a collective call that another process never makes
C18_EveryProcessReturns ==
  (~PreconditionFails /\ cfg.sky_file_dict.has /\ cfg.beam_file_dict.has)
    => <>AllReturned

\* the engine calls of p are whole or started triples I, Q, U, each triple
\* for one detector
CallsInOrder(p) ==
  \A k \in 1..Len(calls[p]) :
    /\ calls[p][k][2] = <<"I", "Q", "U">>[((k - 1) % 3) + 1]
    /\ calls[p][k][1] = calls[p][k - ((k - 1) % 3)][1]

\* p holds one pointing buffer, the one made for the call it is in
OneBufferHeld(p) ==
  {h \in held[p] : h.role = "pnt"} = {PntObj(comp[p])}

\* the beam components p holds
BeamsHeld(p) == {h.comp : h \in {g \in held[p] : g.role = "beam"}}

\* C19: in the weighted strategy the engine calls of a detector come in
\* the order I, Q, U; a process inside a call holds the pointing buffer of
\* that call and no other; inside the Q call it no longer holds the I
\* beam, and inside the U call it holds neither the I nor the Q beam
C19_ReleasedBeforeNextCall ==
  \A p \in Procs :
    (cfg.weighted /\ pc[p] = "in_convolve") =>
      /\ CallsInOrder(p)
      /\ OneBufferHeld(p)
      /\ comp[p] = "Q" => "I" \notin BeamsHeld(p)
      /\ comp[p] = "U" => BeamsHeld(p) \cap {"I", "Q"} = {}

\* C20: the psi_pol array of get_pointing has one entry per row of the
\* pointing.  Every entry is the effective polarization angle of the
\* detector in the observation the row comes from, plus twice the HWP angle
\* of the row's sample when an HWP stream is named; and psi of the row is
\* the psi of the sample's quaternion less the effective angle alone
C20_PsiPolArray ==
  \A p \in Procs :
    pc[p] \in PntPcs =>
      /\ Len(psi_pol[p]) = Len(pnt[p])
      /\ Len(prov[p]) = Len(pnt[p])
      /\ \A k \in 1..Len(pnt[p]) :
           LET ob == data[p][prov[p][k][1]]
               v == prov[p][k][2]
               i == prov[p][k][3]
               e == EffectivePsiPol(cfg, ob.fp, CurDet(p)).val
           IN /\ psi_pol[p][k] =
                   e + (IF cfg.hwp_angle THEN 2 * ob.hwp[v][i] ELSE 0)
              /\ pnt[p][k].psi =
                   ToAngles(SampleQuat(cfg, ob, CurDet(p), v, i)).psi - e

\* a pointing made with an HWP stream and a non-zero effective angle,
\* holding a sample whose HWP angle is zero and one whose HWP angle is not
C20_Witness ==
  \E p \in Procs :
    /\ pc[p] = "calibrate" /\ cfg.hwp_angle
    /\ \E j, k \in 1..Len(pnt[p]) :
         LET hw(m) == data[p][prov[p][m][1]].hwp[prov[p][m][2]][prov[p][m][3]]
         IN /\ hw(j) = 0 /\ hw(k) # 0
            /\ psi_pol[p][j] # 0
            /\ psi_pol[p][k] = psi_pol[p][j] + 2 * hw(k)

\* no local focal plane gives the current detector of p a leakage column
NoLeakageColumn(p) ==
  \A o \in 1..Len(data[p]) :
    "pol_leakage" \notin data[p][o].fp[CurDet(p)].cols

\* p calibrates (calibrate on, beam not normalized) a buffer of a detector
\* without leakage column
CalibratesWithoutLeakage(p) ==
  /\ pc[p] = "calibrate" /\ pc'[p] = "save"
  /\ cfg.calibrate /\ ~BeamNormalized(p)
  /\ NoLeakageColumn(p)

\* C21 as stated: without a leakage column, calibration (on, beam not
\* normalized) leaves the buffer equal to the raw output of the engine: a
\* rescale factor of 1
C21_NoLeakageFactorOne ==
  [][\A p \in Procs :
       CalibratesWithoutLeakage(p) => conv'[p] = conv[p]]_vars

\* C21 as the code has it: without a leakage column epsilon is 0 in every
\* observation, whatever the entry stores, and calibration (on, beam not
\* normalized) doubles every sample of the buffer: a rescale factor of 2
C21_NoLeakageFactorTwo ==
  [][\A p \in Procs :
       CalibratesWithoutLeakage(p) =>
         /\ \A o \in 1..Len(data[p]) :
              GetEpsilon(data[p][o].fp, CurDet(p)) = [err |-> NoErr, val |-> 0]
         /\ conv'[p].has = conv[p].has
         /\ conv[p].has =>
              /\ Len(conv'[p].v) = Len(conv[p].v)
              /\ \A k \in 1..Len(conv[p].v) :
                   conv'[p].v[k] = 2 * conv[p].v[k]]_vars

\* a calibrated buffer with a non-zero sample, of a detector whose entry
\* stores a leakage of 1 under no column
C21_Witness ==
  \E p \in Procs :
    /\ pc[p] = "save" /\ cfg.calibrate /\ ~BeamNormalized(p)
    /\ NoLeakageColumn(p)
    /\ conv[p].has /\ \E k \in 1..Len(conv[p].v) : conv[p].v[k] # 0
    /\ \E o \in 1..Len(data[p]) :
         /\ CurDet(p) \in data[p][o].dets
         /\ data[p][o].fp[CurDet(p)].pol_leakage = 1

\* the focal planes of p give its current detector a leakage of 1 in some
\* local observation that holds it
LeakageGiven(p) ==
  \E o \in 1..Len(data[p]) :
    /\ CurDet(p) \in data[p][o].dets
    /\ GetEpsilon(data[p][o].fp, CurDet(p)).val = 1

\* C22: a process inside an engine call, static or I, Q or U, holds one
\* descriptor, that of its current detector with leakage 0, whatever the
\* focal planes give; in the static strategy the call is the only one of
\* the detector, and what it returns to calibrate_signal is the engine's
\* value for leakage 0 on every row of the whole pointing stream of the
\* detector
C22_EngineLeakageZero ==
  \A p \in Procs :
    /\ pc[p] = "in_convolve" =>
         {h \in held[p] : h.role = "detector"}
           = {[role |-> "detector", name |-> CurDet(p), epsilon |-> 0]}
    /\ (~cfg.weighted /\ pc[p] \in PntPcs) =>
         /\ Len(calls[p]) = idx[p]
         /\ calls[p][idx[p]] = <<CurDet(p), "S">>
         /\ Len(pnt[p]) = TotalSamples(data[p], CurDet(p))
    /\ (~cfg.weighted /\ pc[p] = "calibrate" /\ conv[p].has) =>
         /\ Len(conv[p].v) = Len(pnt[p])
         /\ \A k \in 1..Len(pnt[p]) :
              conv[p].v[k] = EngineValue(CurDet(p), "S", pnt[p][k])

\* the raw output of the static engine call for the second detector of the
\* list, whose focal plane gives it a leakage of 1
C22_Witness ==
  \E p \in Procs :
    /\ ~cfg.weighted /\ pc[p] = "calibrate" /\ conv[p].has
    /\ idx[p] = 2 /\ LeakageGiven(p)

\* the I, Q and U engine values of row k of p's pointing, combined with
\* the weights of the row
CombinedRaw(p, k) ==
  EngineValue(CurDet(p), "I", pnt[p][k])
    + Cos2(psi_pol[p][k]) * EngineValue(CurDet(p), "Q", pnt[p][k])
    + Sin2(psi_pol[p][k]) * EngineValue(CurDet(p), "U", pnt[p][k])

\* C23: in the weighted strategy a process comes to calibrate_signal from
\* the U call only, with the buffer holding the combination of the three
\* engine outputs, none of them rescaled; the calibrate step rescales the
\* combined buffer exactly when calibrate is on and the I beam is not
\* normalized, whatever the Q and U beams report, and stores nothing; and
\* the buffer is not touched again before it is accumulated and the
\* iteration ends
C23_CalibratedOnceCombined ==
  [][\A p \in Procs :
       cfg.weighted =>
         /\ (pc[p] # "calibrate" /\ pc'[p] = "calibrate") =>
              /\ pc[p] = "in_convolve" /\ comp[p] = "U"
              /\ conv'[p].has
              /\ Len(conv'[p].v) = Len(pnt[p])
              /\ \A k \in 1..Len(pnt[p]) :
                   conv'[p].v[k] = CombinedRaw(p, k)
         /\ (pc[p] = "calibrate" /\ (pc'[p] # pc[p] \/ err'[p] # err[p])) =>
              /\ pc'[p] = "save" /\ err'[p] = NoErr
              /\ signal'[p] = signal[p]
              /\ conv'[p] =
                   IF cfg.calibrate /\ ~cfg.normalized["I"]
                   THEN CalibrateFrom(data[p], CurDet(p), conv[p], 1, 0).val
                   ELSE conv[p]
         /\ pc[p] \in {"save", "end_iter"} => conv'[p] = conv[p]]_vars

\* a combined buffer rescaled although the Q and U beams are normalized,
\* the I beam not being so: a sample of a leakage-0 observation is twice
\* the combination of the three engine outputs
C23_Witness ==
  \E p \in Procs :
    /\ cfg.weighted /\ cfg.calibrate /\ pc[p] = "save" /\ conv[p].has
    /\ ~cfg.normalized["I"] /\ cfg.normalized["Q"] /\ cfg.normalized["U"]
    /\ \E k \in 1..Len(pnt[p]) :
         /\ EpsilonOfEntry(p, k) = 0
         /\ CombinedRaw(p, k) # 0
         /\ conv[p].v[k] = 2 * CombinedRaw(p, k)

\* C24: the step in which a process raises stores nothing and leaves the
\* process at the failing step of the failing detector; from then on the
\* process takes no step of its own: no retry, no later detector, no engine
\* call, no load and no write; and the storage of a process changes only in
\* a save step that completes, so that a detector whose iteration fails
\* keeps in every view what it held when the iteration began
C24_NoPartialSuccess ==
  [][\A p \in Procs :
       /\ (err[p] = NoErr /\ err'[p] # NoErr) =>
            /\ signal'[p] = signal[p]
            /\ pc'[p] = pc[p] /\ idx'[p] = idx[p]
       /\ err[p] # NoErr =>
            /\ err'[p] = err[p] /\ pc'[p] = pc[p] /\ idx'[p] = idx[p]
            /\ signal'[p] = signal[p] /\ calls'[p] = calls[p]
            /\ loads'[p] = loads[p] /\ conv'[p] = conv[p]
       /\ (InIteration(p) /\ signal'[p] # signal[p]) =>
            /\ pc[p] = "save" /\ pc'[p] = "end_iter" /\ err'[p] = NoErr
            /\ signal'[p] = Save(signal[p], data[p], CurDet(p), conv[p]).sig]_vars

\* a process that raised inside the iteration of a detector that is not the
\* last of the agreed list, and holds local samples of the failing detector
C24_Witness ==
  \E p \in Procs :
    /\ err[p] # NoErr /\ InIteration(p)
    /\ idx[p] < Len(all_dets[p])
    /\ Slots(data[p], CurDet(p)) # <<>>

\* a local observation of p holds the current detector while its focal
\* plane has no entry for it, or an entry without psi_pol, or, with dxx,
\* an entry without psi_uv
LacksAngles(p) ==
  \E o \in 1..Len(data[p]) :
    /\ CurDet(p) \in data[p][o].dets
    /\ \/ CurDet(p) \notin DOMAIN data[p][o].fp
       \/ "psi_pol" \notin data[p][o].fp[CurDet(p)].cols
       \/ cfg.dxx /\ "psi_uv" \notin data[p][o].fp[CurDet(p)].cols

\* get_pointing raised on p for the current detector
PointingRaised(p) ==
  /\ AtLoopHead(p) /\ err[p] # NoErr
  /\ LoadDet(cfg, CurDet(p)).err = NoErr

\* C25: get_pointing raises for a detector exactly when a focal plane of a
\* local observation holding the detector has no entry for it, or an entry
\* without psi_pol, or (with dxx) without psi_uv: a process that went past
\* get_pointing had the angles, and a process on which get_pointing raised
\* lacked one
C25_FailsIffAngleMissing ==
  \A p \in Procs :
    /\ pc[p] \in PntPcs => ~LacksAngles(p)
    /\ PointingRaised(p) => LacksAngles(p)

\* the loads of one iteration: one sky and one beam per component
LoadsPer == 1 + Len(Comps(cfg))

\* the iterations p has begun in this invocation
Begun(p) == IF pc[p] \in PntPcs THEN idx[p] ELSE idx[p] - 1

\* the sky and beam handles p holds
HandlesHeld(p) == {h \in held[p] : h.role \in {"sky", "beam"}}

\* C26: a process that has not raised has loaded, for each detector of the
\* agreed list whose iteration it has begun and in the order of the list,
\* one sky and then one beam per component (one in the static strategy,
\* three in the weighted one); between two iterations and after the loop it
\* holds no handle; and inside an iteration the handles it holds are
\* exactly those of the loads of this iteration, made for the current
\* detector
C26_LoadedAfreshPerDetector ==
  \A p \in Procs :
    (pc[p] \in LoopPcs /\ err[p] = NoErr) =>
      /\ Len(loads[p]) = Begun(p) * LoadsPer
      /\ \A i \in 1..Begun(p) : \A k \in 1..LoadsPer :
           LET l == loads[p][(i - 1) * LoadsPer + k] IN
             /\ l.det = all_dets[p][i]
             /\ IF k = 1 THEN l.obj.role = "sky"
                ELSE l.obj.role = "beam" /\ l.obj.comp = Comps(cfg)[k - 1]
      /\ pc[p] \in {"loop", "done"} => held[p] = {}
      /\ pc[p] \in PntPcs =>
           /\ HandlesHeld(p) =
                {loads[p][(idx[p] - 1) * LoadsPer + k].obj : k \in 1..LoadsPer}
           /\ \A k \in 1..LoadsPer :
                loads[p][(idx[p] - 1) * LoadsPer + k].det = CurDet(p)

\* a process inside the engine call of its second detector, whose sky and
\* beam files are those of the first detector
C26_Witness ==
  \E p \in Procs :
    /\ pc[p] = "in_convolve" /\ idx[p] = 2 /\ err[p] = NoErr
    /\ Len(loads[p]) = 2 * LoadsPer
    /\ \A k \in 1..LoadsPer :
         /\ loads[p][k].obj = loads[p][LoadsPer + k].obj
         /\ loads[p][k].det # loads[p][LoadsPer + k].det

\* a sample of p's pointing stream that the masks flag and whose stored
\* quaternion is not the null quaternion
FlaggedStored(p) ==
  \E k \in 1..Len(prov[p]) :
    LET s == prov[p][k]
        ob == data[p][s[1]]
    IN /\ SampleFlag(cfg, ob, CurDet(p), s[2], s[3]) \notin {NoFlag, 0}
       /\ ob.quats[CurDet(p)][s[2]][s[3]] # nullquat
       /\ pnt[p][k].theta = ToAngles(nullquat).theta
       /\ pnt[p][k].phi = ToAngles(nullquat).phi

\* C27: the step that runs get_pointing on a process leaves the
\* observations as they were: the focal planes, the quaternions (those of
\* flagged samples included), the shared and detector flag streams and the
\* HWP angles of every process are the same after the step as before it,
\* whether it returns or raises
C27_PointingLeavesInputs ==
  [][\A p \in Procs :
       (pc[p] = "loop" /\ AtLoopHead(p)) =>
         \A q \in Procs : \A o \in 1..Len(data[q]) :
           /\ Len(data'[q]) = Len(data[q])
           /\ data'[q][o].fp = data[q][o].fp
           /\ data'[q][o].quats = data[q][o].quats
           /\ data'[q][o].sflags = data[q][o].sflags
           /\ data'[q][o].dflags = data[q][o].dflags
           /\ data'[q][o].hwp = data[q][o].hwp]_vars

\* get_pointing has returned with apply_flags on: a flagged sample went
\* to the engine as the null quaternion while storage keeps its quaternion
C27_Witness ==
  \E p \in Procs :
    /\ pc[p] \in PntPcs /\ cfg.apply_flags /\ FlaggedStored(p)

\* the entries of obs.detdata[det_data] of p for the detectors other than d
OtherDetectors(sig, p, d) ==
  [o \in 1..Len(sig[p]) |->
     IF sig[p][o].has
     THEN [e \in DOMAIN sig[p][o].v \ {d} |-> sig[p][o].v[e]]
     ELSE <<>>]

MaskOfRow(p, k) ==
  LET s == prov[p][k] IN CombinedMask(cfg, data[p][s[1]], CurDet(p), s[2], s[3])

\* with apply_flags disabled every row of a pointing stream holds the theta
\* and phi of the stored quaternion of its sample, whatever the flag
\* streams and masks
FlagsOffOwnAngles ==
  \A p \in Procs :
    (~cfg.apply_flags /\ pc[p] \in PntPcs) =>
      \A k \in 1..Len(pnt[p]) :
        LET s == prov[p][k]
            a == ToAngles(data[p][s[1]].quats[CurDet(p)][s[2]][s[3]])
        IN pnt[p][k].theta = a.theta /\ pnt[p][k].phi = a.phi

\* C29: with apply_flags enabled the save of a detector leaves every stored
\* sample whose combined mask is nonzero as it was, and with apply_flags
\* disabled the flag streams and masks change no angle
C29_FlaggedGetNoSignal ==
  [][/\ FlagsOffOwnAngles
     /\ \A p \in Procs :
          (cfg.apply_flags /\ pc[p] = "save" /\ pc'[p] = "end_iter") =>
            \A k \in 1..Len(prov[p]) :
              MaskOfRow(p, k) # 0 =>
                StoredIn(signal', p, prov[p][k])
                  = StoredIn(signal, p, prov[p][k])]_vars
====
